---- MODULE Spec2Model ----
(***************************************************************************)
(* Model of gmail-attachments-downloader: the filename deduplicator and    *)
(* createZip of zip.ts, the retry wrapper withRetry of gmail.ts, authorize *)
(* of auth.ts and main of index.ts.                                        *)
(*                                                                         *)
(* Strings are sequences of one-character strings, so that lastIndexOf,    *)
(* slice and template concatenation are computed and not assumed.  An      *)
(* error message is a sequence of text fragments.                          *)
(***************************************************************************)
EXTENDS Integers, Sequences, FiniteSets, TLC

VARIABLES
    files, result, dpc,   \* deduplicateFilenames: argument, result, position
    archive,              \* createZip: the members of the archive produced
    call,                 \* one withRetry call
    calls, during,        \* concurrent withRetry calls and their overlap
    auth,                 \* one authorize call
    main,                 \* one run of main
    extract               \* one extractAttachments call

vars ==
    <<files, result, dpc, archive, call, calls, during, auth, main, extract>>

\* The variables of each component, and the state of a component that is
\* not running.
dedupVars == <<files, result, dpc, archive>>
retryVars == <<call>>
concurrentVars == <<calls, during>>
authVars == <<auth>>
mainVars == <<main>>
extractVars == <<extract>>

DedupIdle ==
    files = <<>> /\ result = <<>> /\ dpc = "idle" /\ archive = <<>>
RetryIdle == call = [pc |-> "idle"]
ConcurrentIdle == calls = <<>> /\ during = <<>>
AuthIdle == auth = [pc |-> "idle"]
MainIdle == main = [pc |-> "idle"]
ExtractIdle == extract = [pc |-> "idle"]

(***************************************************************************)
(* Bounds of the model.                                                    *)
(***************************************************************************)
MaxNameLen == 3
MaxFiles == 3
MaxRetries == 3

(***************************************************************************)
(* Strings.                                                                *)
(***************************************************************************)
Alphabet == {"1", ".", "_"}
Payloads == {"p", "q"}

RECURSIVE StringsOfLen(_)
StringsOfLen(n) ==
    IF n = 0 THEN {<<>>}
    ELSE {Append(s, c) : s \in StringsOfLen(n - 1), c \in Alphabet}

\* File names are never empty: gmail.ts records an attachment only when its
\* filename is non-empty.
Names == UNION {StringsOfLen(n) : n \in 1..MaxNameLen}

DigitChars == <<"0", "1", "2", "3", "4", "5", "6", "7", "8", "9">>

\* Integer to decimal text, as a template literal renders it.
RECURSIVE NumberToString(_)
NumberToString(n) ==
    IF n < 0 THEN <<"-">> \o NumberToString(0 - n)
    ELSE IF n < 10 THEN <<DigitChars[n + 1]>>
    ELSE Append(NumberToString(n \div 10), DigitChars[(n % 10) + 1])

\* String.prototype.lastIndexOf for a one-character needle: the 0-based
\* index of the last occurrence, -1 when there is none.
RECURSIVE LastIndexFrom(_, _, _)
LastIndexFrom(s, c, p) ==
    IF p = 0 THEN -1
    ELSE IF s[p] = c THEN p - 1
    ELSE LastIndexFrom(s, c, p - 1)

lastIndexOf(s, c) == LastIndexFrom(s, c, Len(s))

\* String.prototype.indexOf for a one-character needle.
RECURSIVE IndexFrom(_, _, _)
IndexFrom(s, c, p) ==
    IF p > Len(s) THEN -1
    ELSE IF s[p] = c THEN p - 1
    ELSE IndexFrom(s, c, p + 1)

indexOf(s, c) == IndexFrom(s, c, 1)

\* String.prototype.slice(from, to) and slice(from) with 0-based indexes in
\* range.
slice(s, from, to) == SubSeq(s, from + 1, to)
sliceFrom(s, from) == SubSeq(s, from + 1, Len(s))

\* text.includes(needle) on fragment sequences.
Includes(text, needle) ==
    \E i \in 0..(Len(text) - Len(needle)) :
        SubSeq(text, i + 1, i + Len(needle)) = needle

(***************************************************************************)
(* zip.ts: deduplicateFilenames.                                           *)
(***************************************************************************)
FileEntry(names) == [filename : names, data : Payloads]

\* seenNames.get(name) ?? 0, seenNames being a function on the names seen.
SeenCount(seenNames, name) ==
    IF name \in DOMAIN seenNames THEN seenNames[name] ELSE 0

\* seenNames.set(name, n)
SeenSet(seenNames, name, n) ==
    [k \in (DOMAIN seenNames) \cup {name} |->
        IF k = name THEN n ELSE seenNames[k]]

\* The name given to a file whose original name was seen count times before.
FinalNameFirstDot(filename, count) ==
    IF count > 0
    THEN LET firstDotIndex == indexOf(filename, ".") IN
         IF firstDotIndex > 0
         THEN slice(filename, 0, firstDotIndex) \o <<"_">>
                  \o NumberToString(count) \o sliceFrom(filename, firstDotIndex)
         ELSE filename \o <<"_">> \o NumberToString(count)
    ELSE filename

FinalNameAnyDot(filename, count) ==
    IF count > 0
    THEN LET lastDotIndex == lastIndexOf(filename, ".") IN
         IF lastDotIndex >= 0
         THEN slice(filename, 0, lastDotIndex) \o <<"_">>
                  \o NumberToString(count) \o sliceFrom(filename, lastDotIndex)
         ELSE filename \o <<"_">> \o NumberToString(count)
    ELSE filename

FinalName(filename, count) ==
    IF count > 0
    THEN LET lastDotIndex == lastIndexOf(filename, ".") IN
         IF lastDotIndex > 0
         THEN slice(filename, 0, lastDotIndex) \o <<"_">>
                  \o NumberToString(count) \o sliceFrom(filename, lastDotIndex)
         ELSE filename \o <<"_">> \o NumberToString(count)
    ELSE filename

\* One iteration of the for loop over st = [seenNames, result].
DedupIterDropRepeats(st, file) ==
    LET count == SeenCount(st.seenNames, file.filename) IN
    [seenNames |-> SeenSet(st.seenNames, file.filename, count + 1),
     result |-> IF count > 0 THEN st.result
                ELSE Append(st.result,
                        [filename |-> FinalName(file.filename, count),
                         data |-> file.data])]

DedupIter(st, file) ==
    LET count == SeenCount(st.seenNames, file.filename) IN
    [seenNames |-> SeenSet(st.seenNames, file.filename, count + 1),
     result |-> Append(st.result,
                    [filename |-> FinalName(file.filename, count),
                     data |-> file.data])]

RECURSIVE DedupLoop(_, _, _)
DedupLoop(st, fs, i) ==
    IF i > Len(fs) THEN st
    ELSE DedupLoop(DedupIter(st, fs[i]), fs, i + 1)

deduplicateFilenames(fs) ==
    DedupLoop([seenNames |-> <<>>, result |-> <<>>], fs, 1).result

(***************************************************************************)
(* The deduplicator applied to every batch of at most MaxFiles entries     *)
(* that uses at most two different names.                                  *)
(***************************************************************************)
IdleCall == [pc |-> "idle"]

RECURSIVE SeqsOfLen(_, _)
SeqsOfLen(S, n) ==
    IF n = 0 THEN {<<>>}
    ELSE {Append(s, x) : s \in SeqsOfLen(S, n - 1), x \in S}

SeqsUpTo(S, n) == UNION {SeqsOfLen(S, k) : k \in 0..n}

InitDedup ==
    /\ \E n1 \in Names, n2 \in Names :
           files \in SeqsUpTo(FileEntry({n1, n2}), MaxFiles)
    /\ result = <<>>
    /\ archive = <<>>
    /\ dpc = "ready"
    /\ call = IdleCall
    /\ ConcurrentIdle
    /\ AuthIdle
    /\ MainIdle
    /\ ExtractIdle

Deduplicate ==
    /\ dpc = "ready"
    /\ result' = deduplicateFilenames(files)
    /\ dpc' = "returned"
    /\ UNCHANGED <<files, archive, retryVars, concurrentVars,
                 authVars, mainVars, extractVars>>

\* JSZip.file(name, data): a member of that name is replaced, a new name is
\* added after the members already there.
ZipFile(zip, name, data) ==
    IF \E i \in 1..Len(zip) : zip[i].name = name
    THEN [i \in 1..Len(zip) |->
             IF zip[i].name = name THEN [name |-> name, data |-> data]
             ELSE zip[i]]
    ELSE Append(zip, [name |-> name, data |-> data])

RECURSIVE ZipLoop(_, _, _)
ZipLoop(zip, uniqueFiles, i) ==
    IF i > Len(uniqueFiles) THEN zip
    ELSE ZipLoop(ZipFile(zip, uniqueFiles[i].filename, uniqueFiles[i].data),
                 uniqueFiles, i + 1)

\* createZip(files): the members held by the buffer it resolves to.
createZip(fs) == ZipLoop(<<>>, deduplicateFilenames(fs), 1)

CreateZip ==
    /\ dpc = "ready"
    /\ archive' = createZip(files)
    /\ dpc' = "zipped"
    /\ UNCHANGED <<files, result, retryVars, concurrentVars,
                 authVars, mainVars, extractVars>>

NextDedup == Deduplicate \/ CreateZip

SpecDedup == InitDedup /\ [][NextDedup]_vars

(***************************************************************************)
(* gmail.ts: withRetry.  A call is a frame record; the operators below are *)
(* the pieces of the function between two awaits.                          *)
(***************************************************************************)
\* An error thrown without a code property has code NoCode (undefined).
NoCode == -1
ErrorCodes == {NoCode, 400, 401, 403, 404, 429, 500, 503}
\* A text is a sequence of fragments, cut so that the words a caller searches
\* for ("not found", "deleted", "Invalid request") are fragments of their
\* own.
ErrorMessages == {<<"Rate limited">>, <<"Requested entity was ", "not found">>}
Contexts == {<<"Fetching message m1">>,
             <<"Downloading attachment \"", "deleted",
               ".pdf\" from message m1">>}
Values == {"response1", "response2"}

\* lastError before any catch (null): lastError?.message renders as
\* "undefined".
NullError == [id |-> -1, code |-> NoCode, message |-> <<"undefined">>]

\* new Error(message): a fresh object without code.
NewError(message) == [id |-> 0, code |-> NoCode, message |-> message]

\* The error object the n-th invocation of the operation rejects with.
OperationError(n, code, message) ==
    [id |-> n, code |-> code, message |-> message]

NoOutcome == [kind |-> "pending", value |-> "", error |-> NullError]
Returned(v) == [kind |-> "returned", value |-> v, error |-> NullError]
Threw(e) == [kind |-> "threw", value |-> "", error |-> e]

RECURSIVE Pow2(_)
Pow2(n) == IF n <= 0 THEN 1 ELSE 2 * Pow2(n - 1)

\* statusCode === 429 || (statusCode && statusCode >= 500)
IsRetryable(statusCode) ==
    \/ statusCode = 429
    \/ (statusCode # NoCode /\ statusCode # 0 /\ statusCode >= 500)

BackoffDelayLinear(attempt) == (attempt + 1) * 1000

\* Math.pow(2, attempt) * 1000
BackoffDelay(attempt) == Pow2(attempt) * 1000

NewCall(context, maxRetries) ==
    [pc |-> "ready", context |-> context, maxRetries |-> maxRetries,
     attempt |-> 0, lastError |-> NullError, invocations |-> 0,
     caught |-> <<>>, sleeps |-> <<>>, fulfilled |-> "",
     outcome |-> NoOutcome]

RetryLoopOffByOne(f) ==
    IF f.attempt <= f.maxRetries
    THEN [f EXCEPT !.pc = "awaitOperation", !.invocations = @ + 1]
    ELSE [f EXCEPT !.pc = "done",
                   !.outcome = Threw(NewError(
                       f.context \o <<": Failed after ">>
                           \o NumberToString(f.maxRetries)
                           \o <<" attempts - ">> \o f.lastError.message))]

\* The loop test at the current attempt: either the operation is invoked and
\* awaited, or the loop is left and the final error is thrown.
RetryLoop(f) ==
    IF f.attempt < f.maxRetries
    THEN [f EXCEPT !.pc = "awaitOperation", !.invocations = @ + 1]
    ELSE [f EXCEPT !.pc = "done",
                   !.outcome = Threw(NewError(
                       f.context \o <<": Failed after ">>
                           \o NumberToString(f.maxRetries)
                           \o <<" attempts - ">> \o f.lastError.message))]

RetryCatchNoFinalSleep(f, error) ==
    LET statusCode == error.code
        g == [f EXCEPT !.lastError = error, !.caught = Append(@, error)]
    IN IF statusCode = 404
       THEN [g EXCEPT !.pc = "done",
                      !.outcome = Threw(NewError(f.context \o
                          <<": Resource ", "not found", " (may have been ", "deleted", ")">>))]
       ELSE IF statusCode = 400
       THEN [g EXCEPT !.pc = "done",
                      !.outcome = Threw(NewError(f.context \o
                          <<": ", "Invalid request", " - ">> \o error.message))]
       ELSE IF IsRetryable(statusCode)
       THEN IF f.attempt + 1 < f.maxRetries
            THEN [g EXCEPT !.pc = "awaitSleep",
                           !.sleeps = Append(@, [attempt |-> f.attempt,
                                             ms |-> BackoffDelay(f.attempt)])]
            ELSE RetryLoop([g EXCEPT !.attempt = @ + 1])
       ELSE [g EXCEPT !.pc = "done", !.outcome = Threw(error)]

RetryCatchWrapUnknown(f, error) ==
    LET statusCode == error.code
        g == [f EXCEPT !.lastError = error, !.caught = Append(@, error)]
    IN IF statusCode = 404
       THEN [g EXCEPT !.pc = "done",
                      !.outcome = Threw(NewError(f.context \o
                          <<": Resource ", "not found", " (may have been ", "deleted", ")">>))]
       ELSE IF statusCode = 400
       THEN [g EXCEPT !.pc = "done",
                      !.outcome = Threw(NewError(f.context \o
                          <<": ", "Invalid request", " - ">> \o error.message))]
       ELSE IF IsRetryable(statusCode)
       THEN [g EXCEPT !.pc = "awaitSleep",
                      !.sleeps = Append(@, [attempt |-> f.attempt,
                                            ms |-> BackoffDelay(f.attempt)])]
       ELSE [g EXCEPT !.pc = "done",
                      !.outcome = Threw(NewError(f.context \o <<": ">>
                                                    \o error.message))]

RetryCatchRetryAll(f, error) ==
    LET g == [f EXCEPT !.lastError = error, !.caught = Append(@, error)]
    IN [g EXCEPT !.pc = "awaitSleep",
                 !.sleeps = Append(@, [attempt |-> f.attempt,
                                       ms |-> BackoffDelay(f.attempt)])]

\* The catch block for the error the awaited operation rejected with.
RetryCatch(f, error) ==
    LET statusCode == error.code
        g == [f EXCEPT !.lastError = error, !.caught = Append(@, error)]
    IN IF statusCode = 404
       THEN [g EXCEPT !.pc = "done",
                      !.outcome = Threw(NewError(f.context \o
                          <<": Resource ", "not found", " (may have been ", "deleted", ")">>))]
       ELSE IF statusCode = 400
       THEN [g EXCEPT !.pc = "done",
                      !.outcome = Threw(NewError(f.context \o
                          <<": ", "Invalid request", " - ">> \o error.message))]
       ELSE IF IsRetryable(statusCode)
       THEN [g EXCEPT !.pc = "awaitSleep",
                      !.sleeps = Append(@, [attempt |-> f.attempt,
                                            ms |-> BackoffDelay(f.attempt)])]
       ELSE [g EXCEPT !.pc = "done", !.outcome = Threw(error)]

\* continue: attempt++ and the loop test again.
RetryContinue(f) == RetryLoop([f EXCEPT !.attempt = @ + 1])

RetryReturnMissingReturn(f, v) == RetryLoop([f EXCEPT !.attempt = @ + 1])

\* return await operation() with the operation fulfilled.
RetryReturn(f, v) == [f EXCEPT !.pc = "done", !.outcome = Returned(v)]

(***************************************************************************)
(* One call of withRetry against an operation that may fulfil or reject    *)
(* with any error at each invocation.                                      *)
(***************************************************************************)
InitRetry ==
    /\ \E context \in Contexts, maxRetries \in (-1)..MaxRetries :
           call = NewCall(context, maxRetries)
    /\ DedupIdle
    /\ ConcurrentIdle
    /\ AuthIdle
    /\ MainIdle
    /\ ExtractIdle

WithRetryCalled ==
    /\ call.pc = "ready"
    /\ call' = RetryLoop(call)
    /\ UNCHANGED <<dedupVars, concurrentVars, authVars, mainVars, extractVars>>

OperationFulfils ==
    /\ call.pc = "awaitOperation"
    /\ \E v \in Values :
           call' = RetryReturn([call EXCEPT !.fulfilled = v], v)
    /\ UNCHANGED <<dedupVars, concurrentVars, authVars, mainVars, extractVars>>

OperationRejects ==
    /\ call.pc = "awaitOperation"
    /\ \E code \in ErrorCodes, message \in ErrorMessages :
           call' = RetryCatch(call,
                       OperationError(call.invocations, code, message))
    /\ UNCHANGED <<dedupVars, concurrentVars, authVars, mainVars, extractVars>>

SleepResolves ==
    /\ call.pc = "awaitSleep"
    /\ call' = RetryContinue(call)
    /\ UNCHANGED <<dedupVars, concurrentVars, authVars, mainVars, extractVars>>

NextRetry ==
    \/ WithRetryCalled
    \/ OperationFulfils
    \/ OperationRejects
    \/ SleepResolves

SpecRetry == InitRetry /\ [][NextRetry]_vars

\* The same call when every pending promise settles: the call is started,
\* the awaited operation fulfils or rejects, and Bun.sleep resolves.
SpecRetryFair ==
    /\ SpecRetry
    /\ WF_vars(WithRetryCalled)
    /\ WF_vars(OperationFulfils \/ OperationRejects)
    /\ WF_vars(SleepResolves)


(***************************************************************************)
(* Two withRetry calls in the same process.  Every variable of withRetry   *)
(* (attempt, lastError) is local to its call, and await Bun.sleep suspends *)
(* only the call that awaits it.                                           *)
(***************************************************************************)
CallIds == {1, 2}
ConcurrentContexts == <<<<"Fetching message m1">>, <<"Fetching message m2">>>>
ConcurrentCodes == {404, 429}

ResumeSharedAttempt(cs, c, f) ==
    [d \in DOMAIN cs |->
        IF d = c THEN f ELSE [cs[d] EXCEPT !.attempt = f.attempt]]

\* The continuation of call c runs on the variables of its own frame.
Resume(cs, c, f) == [cs EXCEPT ![c] = f]

RunnableUnlessOtherSleeps(cs, c) ==
    \A d \in DOMAIN cs : d # c => cs[d].pc # "awaitSleep"

\* await Bun.sleep(delay) yields to the event loop: a continuation of call c
\* that is due runs whatever the other calls wait for.
Runnable(cs, c) == TRUE

\* Steps taken by other calls while call d is suspended in Bun.sleep.
Overlap(c) ==
    [d \in CallIds |->
        IF d # c /\ calls[d].pc = "awaitSleep" THEN during[d] + 1
        ELSE during[d]]

InitConcurrent ==
    /\ \E m1 \in 1..MaxRetries, m2 \in 1..MaxRetries :
           calls = [c \in CallIds |->
                       NewCall(ConcurrentContexts[c],
                               IF c = 1 THEN m1 ELSE m2)]
    /\ during = [c \in CallIds |-> 0]
    /\ DedupIdle
    /\ RetryIdle
    /\ AuthIdle
    /\ MainIdle
    /\ ExtractIdle

ConcurrentCalled(c) ==
    /\ calls[c].pc = "ready"
    /\ Runnable(calls, c)
    /\ calls' = Resume(calls, c, RetryLoop(calls[c]))
    /\ during' = Overlap(c)
    /\ UNCHANGED <<dedupVars, retryVars, authVars, mainVars, extractVars>>

ConcurrentFulfils(c) ==
    /\ calls[c].pc = "awaitOperation"
    /\ Runnable(calls, c)
    /\ \E v \in Values :
           calls' = Resume(calls, c,
                        RetryReturn([calls[c] EXCEPT !.fulfilled = v], v))
    /\ during' = Overlap(c)
    /\ UNCHANGED <<dedupVars, retryVars, authVars, mainVars, extractVars>>

ConcurrentRejects(c) ==
    /\ calls[c].pc = "awaitOperation"
    /\ Runnable(calls, c)
    /\ \E code \in ConcurrentCodes :
           calls' = Resume(calls, c,
                        RetryCatch(calls[c],
                            OperationError(calls[c].invocations, code,
                                           <<"Rate limited">>)))
    /\ during' = Overlap(c)
    /\ UNCHANGED <<dedupVars, retryVars, authVars, mainVars, extractVars>>

ConcurrentSleepResolves(c) ==
    /\ calls[c].pc = "awaitSleep"
    /\ Runnable(calls, c)
    /\ calls' = Resume(calls, c, RetryContinue(calls[c]))
    /\ during' = Overlap(c)
    /\ UNCHANGED <<dedupVars, retryVars, authVars, mainVars, extractVars>>

NextConcurrent ==
    \E c \in CallIds :
        \/ ConcurrentCalled(c)
        \/ ConcurrentFulfils(c)
        \/ ConcurrentRejects(c)
        \/ ConcurrentSleepResolves(c)

SpecConcurrent == InitConcurrent /\ [][NextConcurrent]_vars


(***************************************************************************)
(* auth.ts: loadCredentials, loadCachedToken, saveToken, runAuthFlow,      *)
(* refreshTokenIfNeeded and authorize.  An authorize call is a frame       *)
(* record; the operators below are its pieces between two awaits.          *)
(***************************************************************************)
\* expiry_date and refresh_token that are absent (undefined or null).
NoExpiry == -1
NoRefreshToken == ""

\* Date.now() during the call, in milliseconds.
Now == 1000000

\* const bufferMs = 5 * 60 * 1000
BufferMs == 5 * 60 * 1000

NullToken ==
    [access_token |-> "", refresh_token |-> NoRefreshToken,
     expiry_date |-> NoExpiry]

ExpiryDates ==
    {NoExpiry, 0, Now - 1000, Now + BufferMs - 1, Now + BufferMs,
     Now + BufferMs + 1}

\* The tokens token.json may hold when authorize starts.
CachedTokens ==
    [access_token : {"a0"}, refresh_token : {NoRefreshToken, "r0"},
     expiry_date : ExpiryDates]

\* The credentials refreshAccessToken may fulfil with.
RefreshedCredentials ==
    [access_token : {"a1"}, refresh_token : {NoRefreshToken, "r1"},
     expiry_date : {Now + 3600000}]

\* The tokens getToken may fulfil with.
FlowTokens ==
    [access_token : {"a2"}, refresh_token : {"r2"},
     expiry_date : {Now + 3600000}]

\* The content of token.json: no file, a file that is not JSON, or a token.
TokenFiles ==
    {[state |-> "missing", token |-> NullToken],
     [state |-> "invalid", token |-> NullToken]}
        \cup {[state |-> "token", token |-> t] : t \in CachedTokens}

CredentialsFiles == {"missing", "invalid", "ok"}

AuthPending == [kind |-> "pending", token |-> NullToken, error |-> NullError]
AuthReturned(t) == [kind |-> "returned", token |-> t, error |-> NullError]
AuthThrew(e) == [kind |-> "threw", token |-> NullToken, error |-> e]

NewAuth(credentialsFile, tokenFile) ==
    [pc |-> "awaitCredentials",
     credentialsFile |-> credentialsFile, tokenFile |-> tokenFile,
     cached |-> tokenFile, writes |-> <<>>, failedWrites |-> 0,
     client |-> NullToken, pending |-> NullToken,
     refreshCalled |-> FALSE, given |-> NullToken, refreshCalls |-> 0,
     obtained |-> NullToken, refreshOutcome |-> AuthPending,
     flowRuns |-> 0, flowToken |-> NullToken,
     outcome |-> AuthPending]

\* authorize rejects.
AuthorizeThrew(a, e) == [a EXCEPT !.pc = "done", !.outcome = AuthThrew(e)]

\* oAuth2Client.setCredentials(token); return oAuth2Client
AuthorizeReturned(a, t) ==
    [a EXCEPT !.pc = "done", !.client = t, !.outcome = AuthReturned(t)]

\* loadCredentials settled: authorize goes on to loadCachedToken or rejects.
AuthorizeCredentialsLoaded(a) ==
    IF a.credentialsFile = "missing"
    THEN AuthorizeThrew(a, NewError(<<"Missing credentials.json. Download OAuth 2.0 credentials from Google Cloud Console.">>))
    ELSE IF a.credentialsFile = "invalid"
    THEN AuthorizeThrew(a, NewError(<<"Failed to parse credentials.json. Ensure it contains valid JSON.">>))
    ELSE [a EXCEPT !.pc = "awaitCachedToken"]

\* runAuthFlow is entered: the URL is printed and prompt() waits.
RunAuthFlow(a) == [a EXCEPT !.pc = "prompt", !.flowRuns = @ + 1]

RefreshReturned(a, t) ==
    AuthorizeReturned([a EXCEPT !.refreshOutcome = AuthReturned(t)], t)

RefreshThrewNoFallback(a, e) ==
    AuthorizeThrew([a EXCEPT !.refreshOutcome = AuthThrew(e)], e)

\* refreshTokenIfNeeded throws: authorize catches and starts the flow.
RefreshThrew(a, e) ==
    RunAuthFlow([a EXCEPT !.refreshOutcome = AuthThrew(e)])

NeedsRefreshInclusive(token, now) ==
    /\ token.expiry_date # NoExpiry
    /\ token.expiry_date # 0
    /\ token.expiry_date - now <= BufferMs

\* expiryDate && expiryDate - now < bufferMs
NeedsRefresh(token, now) ==
    /\ token.expiry_date # NoExpiry
    /\ token.expiry_date # 0
    /\ token.expiry_date - now < BufferMs

\* refreshTokenIfNeeded(oAuth2Client, token) up to its first await.
RefreshTokenIfNeeded(a, token) ==
    LET b == [a EXCEPT !.refreshCalled = TRUE, !.given = token,
                       !.client = token]
    IN IF NeedsRefresh(token, Now)
       THEN IF token.refresh_token # NoRefreshToken
            THEN [b EXCEPT !.pc = "awaitRefresh", !.refreshCalls = @ + 1]
            ELSE RefreshThrew(b, NewError(
                     <<"Token expired and no refresh token available.">>))
       ELSE RefreshReturned(b, token)

\* loadCachedToken settled: null for a missing or unparsable file.
AuthorizeTokenLoaded(a) ==
    IF a.tokenFile.state = "token"
    THEN RefreshTokenIfNeeded(a, a.tokenFile.token)
    ELSE RunAuthFlow(a)

RefreshAccessFulfilledNoPreserve(a, credentials) ==
    [a EXCEPT !.pc = "awaitSaveRefreshed", !.obtained = credentials,
              !.pending = credentials]

\* refreshAccessToken fulfilled: the refresh_token is kept when the new
\* credentials have none, and saveToken is awaited.
RefreshAccessFulfilled(a, credentials) ==
    LET kept == IF credentials.refresh_token = NoRefreshToken
                      /\ a.given.refresh_token # NoRefreshToken
                THEN [credentials EXCEPT
                          !.refresh_token = a.given.refresh_token]
                ELSE credentials
    IN [a EXCEPT !.pc = "awaitSaveRefreshed", !.obtained = credentials,
                 !.pending = kept]

\* Bun.write(TOKEN_PATH, ...) done.
TokenWritten(a) ==
    [a EXCEPT !.tokenFile = [state |-> "token", token |-> a.pending],
              !.writes = Append(@, a.pending)]

\* Bun.write(TOKEN_PATH, ...) rejected: the file is as it was, or holds the
\* part that was written before the failure, which does not parse.
WriteFailureEffects == {"unchanged", "partial"}
TokenWriteFailed(a, effect) ==
    [a EXCEPT !.failedWrites = @ + 1,
              !.tokenFile = IF effect = "partial"
                            THEN [state |-> "invalid", token |-> NullToken]
                            ELSE @]

RefreshCatchWraps(a, error) ==
    RefreshThrew(a, NewError(<<"Failed to refresh token: ">> \o error.message))

\* The catch block of refreshTokenIfNeeded: the error caught is thrown again.
RefreshCatch(a, error) == RefreshThrew(a, error)

\* prompt() returned: an empty code makes runAuthFlow throw, otherwise
\* getToken is awaited.
FlowPrompted(a, code) ==
    IF code = ""
    THEN AuthorizeThrew(a, NewError(<<"Authorization code is required.">>))
    ELSE [a EXCEPT !.pc = "awaitGetToken"]

\* getToken fulfilled: saveToken is awaited.
FlowTokenObtained(a, tokens) ==
    [a EXCEPT !.pc = "awaitSaveNew", !.flowToken = tokens,
              !.pending = tokens]

(***************************************************************************)
(* One call of authorize, for every state of credentials.json and          *)
(* token.json and every outcome of the Google API and of the file writes.  *)
(***************************************************************************)
ApiError == OperationError(1, 400, <<"invalid_grant">>)
WriteError == OperationError(1, NoCode, <<"EACCES: permission denied">>)

InitAuth ==
    /\ \E credentialsFile \in CredentialsFiles, tokenFile \in TokenFiles :
           auth = NewAuth(credentialsFile, tokenFile)
    /\ DedupIdle
    /\ RetryIdle
    /\ ConcurrentIdle
    /\ MainIdle
    /\ ExtractIdle

LoadCredentialsSettles ==
    /\ auth.pc = "awaitCredentials"
    /\ auth' = AuthorizeCredentialsLoaded(auth)
    /\ UNCHANGED <<dedupVars, retryVars, concurrentVars, mainVars, extractVars>>

LoadCachedTokenSettles ==
    /\ auth.pc = "awaitCachedToken"
    /\ auth' = AuthorizeTokenLoaded(auth)
    /\ UNCHANGED <<dedupVars, retryVars, concurrentVars, mainVars, extractVars>>

RefreshAccessTokenFulfils ==
    /\ auth.pc = "awaitRefresh"
    /\ \E credentials \in RefreshedCredentials :
           auth' = RefreshAccessFulfilled(auth, credentials)
    /\ UNCHANGED <<dedupVars, retryVars, concurrentVars, mainVars, extractVars>>

RefreshAccessTokenRejects ==
    /\ auth.pc = "awaitRefresh"
    /\ auth' = RefreshCatch(auth, ApiError)
    /\ UNCHANGED <<dedupVars, retryVars, concurrentVars, mainVars, extractVars>>

SaveRefreshedTokenFulfils ==
    /\ auth.pc = "awaitSaveRefreshed"
    /\ auth' = RefreshReturned(TokenWritten(auth), auth.pending)
    /\ UNCHANGED <<dedupVars, retryVars, concurrentVars, mainVars, extractVars>>

SaveRefreshedTokenRejects ==
    /\ auth.pc = "awaitSaveRefreshed"
    /\ \E effect \in WriteFailureEffects :
           auth' = RefreshCatch(TokenWriteFailed(auth, effect), WriteError)
    /\ UNCHANGED <<dedupVars, retryVars, concurrentVars, mainVars, extractVars>>

PromptReturns ==
    /\ auth.pc = "prompt"
    /\ \E code \in {"", "4/0AbCd"} : auth' = FlowPrompted(auth, code)
    /\ UNCHANGED <<dedupVars, retryVars, concurrentVars, mainVars, extractVars>>

GetTokenFulfils ==
    /\ auth.pc = "awaitGetToken"
    /\ \E tokens \in FlowTokens : auth' = FlowTokenObtained(auth, tokens)
    /\ UNCHANGED <<dedupVars, retryVars, concurrentVars, mainVars, extractVars>>

GetTokenRejects ==
    /\ auth.pc = "awaitGetToken"
    /\ auth' = AuthorizeThrew(auth, ApiError)
    /\ UNCHANGED <<dedupVars, retryVars, concurrentVars, mainVars, extractVars>>

SaveNewTokenFulfils ==
    /\ auth.pc = "awaitSaveNew"
    /\ auth' = AuthorizeReturned(TokenWritten(auth), auth.pending)
    /\ UNCHANGED <<dedupVars, retryVars, concurrentVars, mainVars, extractVars>>

SaveNewTokenRejects ==
    /\ auth.pc = "awaitSaveNew"
    /\ \E effect \in WriteFailureEffects :
           auth' = AuthorizeThrew(TokenWriteFailed(auth, effect), WriteError)
    /\ UNCHANGED <<dedupVars, retryVars, concurrentVars, mainVars, extractVars>>

NextAuth ==
    \/ LoadCredentialsSettles
    \/ LoadCachedTokenSettles
    \/ RefreshAccessTokenFulfils
    \/ RefreshAccessTokenRejects
    \/ SaveRefreshedTokenFulfils
    \/ SaveRefreshedTokenRejects
    \/ PromptReturns
    \/ GetTokenFulfils
    \/ GetTokenRejects
    \/ SaveNewTokenFulfils
    \/ SaveNewTokenRejects

SpecAuth == InitAuth /\ [][NextAuth]_vars


(***************************************************************************)
(* index.ts: main.  A run is a frame record; the Gmail calls it awaits run *)
(* in the withRetry frame `call`.  An argument, a query, a message id and  *)
(* a filename are texts: a leading "-" and every "." are fragments of      *)
(* their own.                                                              *)
(***************************************************************************)
EXIT_SUCCESS == 0
EXIT_USER_ERROR == 1
EXIT_AUTH_ERROR == 2
EXIT_API_ERROR == 3
EXIT_FS_ERROR == 4

\* withRetry's default for maxRetries.
DefaultMaxRetries == 3

\* messageIds.length > 100, messageIds.slice(0, 100)
MessageLimit == 100

\* Most messages a search yields, and most pages it takes.
MaxMessages == 2

NoExit == -1
EmptyText == <<>>

DefaultOutput == <<"attachments", ".", "zip">>

\* arg.startsWith("-")
StartsWithDash(arg) == Len(arg) > 0 /\ arg[1] = "-"

ParsedArgs(query, output, help) ==
    [query |-> query, output |-> output, help |-> help]

\* The while loop of parseArgs from position i (0-based); exit is the code
\* process.exit was called with, NoExit when the loop ran to the end.
RECURSIVE ParseLoop(_, _, _)
ParseLoopHelpStops(args, i, r) ==
    IF ~(i < Len(args)) THEN [result |-> r, exit |-> NoExit, error |-> ""]
    ELSE LET arg == args[i + 1]
         IN IF arg = <<"-", "h">> \/ arg = <<"-", "-help">>
            THEN [result |-> [r EXCEPT !.help = TRUE], exit |-> NoExit,
                  error |-> ""]
            ELSE IF arg = <<"-", "o">> \/ arg = <<"-", "-output">>
            THEN IF i + 1 >= Len(args)
                 THEN [result |-> r, exit |-> EXIT_USER_ERROR,
                       error |-> "Error: -o/--output requires a filename argument"]
                 ELSE ParseLoop(args, i + 2,
                                [r EXCEPT !.output = args[i + 2]])
            ELSE IF StartsWithDash(arg)
            THEN [result |-> r, exit |-> EXIT_USER_ERROR,
                  error |-> "Error: Unknown option"]
            ELSE ParseLoop(args, i + 1, [r EXCEPT !.query = arg])

ParseLoop(args, i, r) ==
    IF ~(i < Len(args)) THEN [result |-> r, exit |-> NoExit, error |-> ""]
    ELSE LET arg == args[i + 1]
         IN IF arg = <<"-", "h">> \/ arg = <<"-", "-help">>
            THEN ParseLoop(args, i + 1, [r EXCEPT !.help = TRUE])
            ELSE IF arg = <<"-", "o">> \/ arg = <<"-", "-output">>
            THEN IF i + 1 >= Len(args)
                 THEN [result |-> r, exit |-> EXIT_USER_ERROR,
                       error |-> "Error: -o/--output requires a filename argument"]
                 ELSE ParseLoop(args, i + 2,
                                [r EXCEPT !.output = args[i + 2]])
            ELSE IF StartsWithDash(arg)
            THEN [result |-> r, exit |-> EXIT_USER_ERROR,
                  error |-> "Error: Unknown option"]
            ELSE ParseLoop(args, i + 1, [r EXCEPT !.query = arg])

parseArgs(args) == ParseLoop(args, 0, ParsedArgs(EmptyText, DefaultOutput, FALSE))

\* A response of the Gmail API, with the fields the three calls read:
\* messages.list (messages, nextPageToken), messages.get (payload) and
\* attachments.get (hasData, data).  A missing field is empty.
NoPayload ==
    [filename |-> EmptyText, mimeType |-> "", attachmentId |-> "",
     hasSize |-> FALSE, size |-> 0, parts |-> <<>>]
NoResponse ==
    [messages |-> <<>>, nextPageToken |-> "", payload |-> NoPayload,
     hasData |-> FALSE, data |-> <<>>]

NewMain(argv) ==
    [pc |-> "start", argv |-> argv,
     args |-> ParsedArgs(EmptyText, DefaultOutput, FALSE),
     auth |-> "undefined", pageToken |-> "", pages |-> 0, listed |-> <<>>,
     messageIds |-> <<>>, i |-> 0, fetched |-> <<>>, scans |-> <<>>,
     allAttachments |-> <<>>, downloads |-> <<>>, files |-> <<>>,
     response |-> NoResponse,
     zipBuffer |-> <<>>, writes |-> 0,
     disk |-> [written |-> FALSE, content |-> <<>>],
     skips |-> <<>>, stderr |-> <<>>, exits |-> <<>>]

\* process.exit(code) after console.error(line): the run is over.
Exit(m, code, line) ==
    [m EXCEPT !.exits = Append(@, code),
              !.stderr = IF line = "" THEN @ ELSE Append(@, line)]

Running(m) == m.pc # "idle" /\ m.exits = <<>>

\* main up to its first await.
MainStarted(m) ==
    LET p == parseArgs(m.argv)
    IN IF p.exit # NoExit THEN Exit(m, p.exit, p.error)
       ELSE IF p.result.help
       THEN Exit([m EXCEPT !.args = p.result], EXIT_SUCCESS, "")
       ELSE IF p.result.query = EmptyText
       THEN Exit([m EXCEPT !.args = p.result], EXIT_USER_ERROR,
                 "Error: Search query is required")
       ELSE [m EXCEPT !.args = p.result, !.pc = "authorize"]

\* The context strings of gmail.ts and the message of the missing-data error.
SearchContext(query) ==
    <<"Searching messages with query \"">> \o query \o <<"\"">>
FetchContext(messageId) == <<"Fetching message ">> \o messageId
DownloadContext(filename, messageId) ==
    <<"Downloading attachment \"">> \o filename
        \o <<"\" from message ">> \o messageId
NoDataMessage(filename, messageId) ==
    <<"No data in attachment \"">> \o filename
        \o <<"\" from message ">> \o messageId

\* withRetry(operation, context) up to its first await.
StartCall(context) == RetryLoop(NewCall(context, DefaultMaxRetries))

\* The 64 characters of base64url, in the order of their values.
Base64UrlAlphabet ==
    <<"A", "B", "C", "D", "E", "F", "G", "H", "I", "J", "K", "L", "M",
      "N", "O", "P", "Q", "R", "S", "T", "U", "V", "W", "X", "Y", "Z",
      "a", "b", "c", "d", "e", "f", "g", "h", "i", "j", "k", "l", "m",
      "n", "o", "p", "q", "r", "s", "t", "u", "v", "w", "x", "y", "z",
      "0", "1", "2", "3", "4", "5", "6", "7", "8", "9", "-", "_">>

RECURSIVE Pow(_, _)
Pow(b, e) == IF e <= 0 THEN 1 ELSE b * Pow(b, e - 1)

\* The value of a character of the base64url alphabet.
Base64UrlValue(ch) ==
    (CHOOSE v \in 1..Len(Base64UrlAlphabet) : Base64UrlAlphabet[v] = ch) - 1

\* The number written by the characters from position k on, six bits each.
RECURSIVE Base64UrlNumber(_, _)
Base64UrlNumber(data, k) ==
    IF k > Len(data) THEN 0
    ELSE Base64UrlValue(data[k]) * Pow(64, Len(data) - k)
             + Base64UrlNumber(data, k + 1)

\* Buffer.from(data, "base64url") for unpadded data: the whole bytes among
\* the bits of the characters.
Base64UrlDecode(data) ==
    LET bits == 6 * Len(data)
        count == bits \div 8
        number == Base64UrlNumber(data, 1) \div Pow(2, bits % 8)
    IN [k \in 1..count |-> (number \div Pow(256, count - k)) % 256]

\* A message part: filename, mimeType and body.attachmentId are empty when
\* absent, body.size is absent when hasSize is false, parts is empty when
\* absent.
Part(filename, mimeType, attachmentId, hasSize, size, parts) ==
    [filename |-> filename, mimeType |-> mimeType,
     attachmentId |-> attachmentId, hasSize |-> hasSize, size |-> size,
     parts |-> parts]

\* The record of a part that is an attachment.
AttachmentInfo(part, messageId) ==
    [attachmentId |-> part.attachmentId,
     filename |-> part.filename,
     mimeType |-> IF part.mimeType # "" THEN part.mimeType
                  ELSE "application/octet-stream",
     size |-> IF part.hasSize /\ part.size # 0 THEN part.size ELSE 0,
     messageId |-> messageId]

RECURSIVE ExtractLoopTopLevelOnly(_, _, _, _)
RECURSIVE ExtractLoop(_, _, _, _)
RECURSIVE extractAttachments(_, _)

ExtractLoopTopLevelOnly(attachments, parts, k, messageId) ==
    IF k > Len(parts) THEN attachments
    ELSE LET part == parts[k]
             own == IF Len(part.filename) > 0 /\ part.attachmentId # ""
                    THEN <<AttachmentInfo(part, messageId)>>
                    ELSE <<>>
         IN ExtractLoopTopLevelOnly(attachments \o own, parts, k + 1,
                                    messageId)

\* The for loop of extractAttachments from the k-th part: the part itself
\* when it is an attachment, then the attachments of its nested parts.
ExtractLoop(attachments, parts, k, messageId) ==
    IF k > Len(parts) THEN attachments
    ELSE LET part == parts[k]
             own == IF Len(part.filename) > 0 /\ part.attachmentId # ""
                    THEN <<AttachmentInfo(part, messageId)>>
                    ELSE <<>>
             nested == IF Len(part.parts) > 0
                       THEN extractAttachments(part.parts, messageId)
                       ELSE <<>>
         IN ExtractLoop(attachments \o own \o nested, parts, k + 1,
                        messageId)

\* extractAttachments(parts, messageId); parts that are undefined are the
\* empty sequence.
extractAttachments(parts, messageId) ==
    ExtractLoop(<<>>, parts, 1, messageId)

\* getMessageAttachments after the response of messages.get has arrived.
getMessageAttachments(response, messageId) ==
    LET payload == response.payload
    IN IF payload.attachmentId # "" /\ payload.filename # EmptyText
       THEN <<AttachmentInfo(payload, messageId)>>
       ELSE extractAttachments(payload.parts, messageId)

\* The frame of main and the frame of the withRetry call it awaits.
Frames(m, c) == [main |-> m, call |-> c]

\* The code of the error a call caught last, NoCode when it caught none.
LastCode(c) ==
    IF Len(c.caught) > 0 THEN c.caught[Len(c.caught)].code ELSE NoCode

\* console.warn and continue; the entry keeps what was skipped: whether the
\* withRetry call threw, and the code it caught last.
Skip(m, c) ==
    [m EXCEPT !.skips = Append(@, [phase |-> m.pc, item |-> m.i,
                                   threw |-> c.outcome.kind = "threw",
                                   code |-> LastCode(c)]),
              !.i = @ + 1]

\* msg.includes("not found") || msg.includes("deleted")
Skippable(msg) ==
    Includes(msg, <<"not found">>) \/ Includes(msg, <<"deleted">>)

DownloadLoopStopsAtFirst(m, c) ==
    IF m.i < Len(m.allAttachments) /\ m.i < 1
    THEN LET att == m.allAttachments[m.i + 1]
         IN Frames([m EXCEPT !.pc = "download"],
                   StartCall(DownloadContext(att.filename, att.messageId)))
    ELSE Frames([m EXCEPT !.pc = "write", !.zipBuffer = createZip(m.files)],
                c)

\* The download loop at index i: the next downloadAttachment call is started,
\* or the archive is created and writeZipToFile awaits the write.
DownloadLoop(m, c) ==
    IF m.i < Len(m.allAttachments)
    THEN LET att == m.allAttachments[m.i + 1]
         IN Frames([m EXCEPT !.pc = "download"],
                   StartCall(DownloadContext(att.filename, att.messageId)))
    ELSE Frames([m EXCEPT !.pc = "write", !.zipBuffer = createZip(m.files)],
                c)

\* The catch block of the download loop.
DownloadCatch(m, c, msg) ==
    IF Skippable(msg)
    THEN DownloadLoop(Skip(m, c), c)
    ELSE Frames(Exit(m, EXIT_API_ERROR, "Failed to download"), c)

downloadAttachmentEmptyEntry(c, response, filename, messageId) ==
    IF c.outcome.kind = "threw"
    THEN [kind |-> "threw", error |-> c.outcome.error,
          file |-> [filename |-> EmptyText, data |-> <<>>]]
    ELSE IF ~response.hasData
    THEN [kind |-> "threw",
          error |-> NewError(NoDataMessage(filename, messageId)),
          file |-> [filename |-> EmptyText, data |-> <<>>]]
    ELSE [kind |-> "returned", error |-> NullError,
          file |-> [filename |-> filename,
                    data |-> Base64UrlDecode(response.data)]]

\* downloadAttachment after its withRetry call has settled: the error of the
\* call, the missing-data error, or the entry with the decoded data.
downloadAttachment(c, response, filename, messageId) ==
    IF c.outcome.kind = "threw"
    THEN [kind |-> "threw", error |-> c.outcome.error,
          file |-> [filename |-> EmptyText, data |-> <<>>]]
    ELSE IF ~response.hasData \/ response.data = <<>>
    THEN [kind |-> "threw",
          error |-> NewError(NoDataMessage(filename, messageId)),
          file |-> [filename |-> EmptyText, data |-> <<>>]]
    ELSE [kind |-> "returned", error |-> NullError,
          file |-> [filename |-> filename,
                    data |-> Base64UrlDecode(response.data)]]

\* downloadAttachment has settled in the download loop; downloads keeps the
\* arguments, the response (when there was one) and the outcome of every
\* call.
DownloadSettled(m, c) ==
    LET att == m.allAttachments[m.i + 1]
        settled == downloadAttachment(c, m.response, att.filename,
                                      att.messageId)
        n == [m EXCEPT !.downloads = Append(@,
                  [messageId |-> att.messageId,
                   attachmentId |-> att.attachmentId,
                   filename |-> att.filename,
                   fulfilled |-> c.outcome.kind = "returned",
                   response |-> IF c.outcome.kind = "returned"
                                THEN m.response ELSE NoResponse,
                   outcome |-> settled])]
    IN IF settled.kind = "threw"
       THEN DownloadCatch(n, c, settled.error.message)
       ELSE DownloadLoop([n EXCEPT !.files = Append(@, settled.file),
                                   !.i = @ + 1], c)

ScanLoopNoEmptyExit(m, c) ==
    IF m.i < Len(m.messageIds)
    THEN Frames([m EXCEPT !.pc = "scan",
                          !.fetched = Append(@, m.messageIds[m.i + 1])],
                StartCall(FetchContext(m.messageIds[m.i + 1])))
    ELSE DownloadLoop([m EXCEPT !.i = 0], c)

\* The scan loop at index i: the next getMessageAttachments call is started
\* (fetched keeps the ids the calls were made for), or the loop is over.
ScanLoop(m, c) ==
    IF m.i < Len(m.messageIds)
    THEN Frames([m EXCEPT !.pc = "scan",
                          !.fetched = Append(@, m.messageIds[m.i + 1])],
                StartCall(FetchContext(m.messageIds[m.i + 1])))
    ELSE IF Len(m.allAttachments) = 0
    THEN Frames(Exit(m, EXIT_SUCCESS, ""), c)
    ELSE DownloadLoop([m EXCEPT !.i = 0], c)

\* getMessageAttachments has settled; scans keeps the id and the outcome of
\* every call.
ScanSettled(m, c) ==
    LET n == [m EXCEPT !.scans = Append(@,
                  [messageId |-> m.messageIds[m.i + 1],
                   threw |-> c.outcome.kind = "threw"])]
    IN IF c.outcome.kind = "threw"
       THEN IF Skippable(c.outcome.error.message)
            THEN ScanLoop(Skip(n, c), c)
            ELSE Frames(Exit(n, EXIT_API_ERROR,
                             "Failed to get attachments from message"), c)
       ELSE ScanLoop(
                [n EXCEPT !.allAttachments =
                              @ \o getMessageAttachments(m.response,
                                                         m.messageIds[m.i + 1]),
                          !.i = @ + 1], c)

\* searchMessages: one page is requested.
SearchPage(m) ==
    Frames([m EXCEPT !.pc = "search", !.pages = @ + 1],
           StartCall(SearchContext(m.args.query)))

\* The ids of a page: entries without an id are left out.
RECURSIVE PageIds(_, _)
PageIds(messages, k) ==
    IF k > Len(messages) THEN <<>>
    ELSE (IF messages[k].id # EmptyText THEN <<messages[k].id>> ELSE <<>>)
             \o PageIds(messages, k + 1)

SearchReturnedNoLimit(m, c) ==
    IF Len(m.messageIds) = 0 THEN Frames(Exit(m, EXIT_SUCCESS, ""), c)
    ELSE ScanLoop([m EXCEPT !.i = 0], c)

\* searchMessages has returned messageIds.
SearchReturned(m, c) ==
    IF Len(m.messageIds) = 0 THEN Frames(Exit(m, EXIT_SUCCESS, ""), c)
    ELSE ScanLoop(
             [m EXCEPT !.messageIds =
                           IF Len(@) > MessageLimit
                           THEN slice(@, 0, MessageLimit) ELSE @,
                       !.i = 0], c)

\* The page that has arrived, with the pageToken it was requested with.
Listed(m) ==
    [pageToken |-> m.pageToken, messages |-> m.response.messages,
     nextPageToken |-> m.response.nextPageToken]

SearchSettledStalePageToken(m, c) ==
    IF c.outcome.kind = "threw"
    THEN IF Includes(c.outcome.error.message, <<"Invalid request">>)
         THEN Frames(Exit(m, EXIT_USER_ERROR, "Invalid search query:"), c)
         ELSE Frames(Exit(m, EXIT_API_ERROR, "Search failed:"), c)
    ELSE LET n == [m EXCEPT !.messageIds =
                                @ \o PageIds(m.response.messages, 1),
                            !.listed = Append(@, Listed(m))]
         IN IF m.response.nextPageToken # ""
            THEN SearchPage(n)
            ELSE SearchReturned(n, c)

\* The withRetry call of a page has settled: searchMessages rejects and
\* main exits, or the ids of the page are pushed and pageToken decides
\* whether another page is requested.
SearchSettled(m, c) ==
    IF c.outcome.kind = "threw"
    THEN IF Includes(c.outcome.error.message, <<"Invalid request">>)
         THEN Frames(Exit(m, EXIT_USER_ERROR, "Invalid search query:"), c)
         ELSE Frames(Exit(m, EXIT_API_ERROR, "Search failed:"), c)
    ELSE LET n == [m EXCEPT !.messageIds =
                                @ \o PageIds(m.response.messages, 1),
                            !.listed = Append(@, Listed(m)),
                            !.pageToken = m.response.nextPageToken]
         IN IF n.pageToken # ""
            THEN SearchPage(n)
            ELSE SearchReturned(n, c)

\* main resumes when the withRetry call it awaits has settled.
Resumed(m, c) ==
    IF c.pc # "done" THEN Frames(m, c)
    ELSE CASE m.pc = "search" -> SearchSettled(m, c)
           [] m.pc = "scan" -> ScanSettled(m, c)
           [] m.pc = "download" -> DownloadSettled(m, c)

(***************************************************************************)
(* One run of main for a command line, against an account whose calls may  *)
(* fulfil or reject at each invocation.                                    *)
(***************************************************************************)
PlainQuery == <<"has:attachment">>
QuotedQuery == <<"subject:", "Invalid request">>
OutputName == <<"out", ".", "zip">>

MainArgvs ==
    {<<>>,
     <<<<"-", "h">>>>,
     <<<<"-", "-help">>, PlainQuery>>,
     <<<<"-", "x">>, PlainQuery>>,
     <<PlainQuery, <<"-", "o">>>>,
     <<<<"-", "-output">>, OutputName>>,
     <<PlainQuery>>,
     <<QuotedQuery, <<"-", "o">>, OutputName>>}

\* The n-th message of the account.
MessageId(n) == <<"m">> \o NumberToString(n)

\* The token the p-th page names the next page with: two pages in a row
\* never name the same one.
PageToken(p) == IF p % 2 = 1 THEN "t1" ELSE "t2"

\* A page of k messages after the n already listed.
Page(n, k, token) ==
    [NoResponse EXCEPT !.messages = [x \in 1..k |-> [id |-> MessageId(n + x)]],
                       !.nextPageToken = token]

PlainName == <<"a", ".", "pdf">>
DeletedName == <<"deleted", ".", "pdf">>

\* The payloads of a message: no parts, a multipart message with one
\* attachment after an inline part, a single-part message that is an
\* attachment.
MessagePayloads ==
    {NoPayload,
     [NoPayload EXCEPT !.parts =
         <<[NoPayload EXCEPT !.mimeType = "text/plain"],
           [NoPayload EXCEPT !.filename = PlainName,
                             !.mimeType = "application/pdf",
                             !.attachmentId = "att1",
                             !.hasSize = TRUE, !.size = 1024]>>],
     [NoPayload EXCEPT !.filename = DeletedName, !.attachmentId = "att2"]}

\* The data of an attachment: the encodings of the byte 112 and of the byte
\* 255, whose first character is not one of base64.
AttachmentData == {<<"c", "A">>, <<"_", "w">>}

\* The responses the awaited call of main can be fulfilled with.
Responses(m) ==
    CASE m.pc = "search" ->
             {Page(Len(m.messageIds), k, token) :
                  k \in 0..(MaxMessages - Len(m.messageIds)),
                  token \in IF m.pages < MaxMessages
                            THEN {"", PageToken(m.pages)} ELSE {""}}
      [] m.pc = "scan" ->
             {[NoResponse EXCEPT !.payload = p] : p \in MessagePayloads}
      [] m.pc = "download" ->
             {NoResponse}
                 \cup {[NoResponse EXCEPT !.hasData = TRUE, !.data = d] :
                           d \in AttachmentData \cup {<<>>}}

\* The errors it can be rejected with.
ApiErrors ==
    {[code |-> 404, message |-> <<"Rate limited">>],
     [code |-> 400, message |-> <<"Rate limited">>],
     [code |-> 429, message |-> <<"Rate limited">>],
     [code |-> 403, message |-> <<"Rate limited">>],
     [code |-> 403, message |-> <<"Requested entity was ", "not found">>]}

WriteErrorCodes == {"EACCES", "ENOSPC", "EROFS", "EIO"}

InitMain ==
    /\ \E argv \in MainArgvs : main = NewMain(argv)
    /\ call = IdleCall
    /\ DedupIdle
    /\ ConcurrentIdle
    /\ AuthIdle
    /\ ExtractIdle

AwaitsApi ==
    /\ Running(main)
    /\ main.pc \in {"search", "scan", "download"}

MainStarts ==
    /\ Running(main)
    /\ main.pc = "start"
    /\ main' = MainStarted(main)
    /\ UNCHANGED <<dedupVars, retryVars, concurrentVars, authVars, extractVars>>

AuthorizeFulfils ==
    /\ Running(main)
    /\ main.pc = "authorize"
    /\ LET r == SearchPage([main EXCEPT !.auth = "client"])
       IN main' = r.main /\ call' = r.call
    /\ UNCHANGED <<dedupVars, concurrentVars, authVars, extractVars>>

AuthorizeRejects ==
    /\ Running(main)
    /\ main.pc = "authorize"
    /\ main' = Exit(main, EXIT_AUTH_ERROR, "Authentication failed:")
    /\ UNCHANGED <<dedupVars, retryVars, concurrentVars, authVars, extractVars>>

ApiFulfils ==
    /\ AwaitsApi
    /\ call.pc = "awaitOperation"
    /\ \E response \in Responses(main) :
           LET r == Resumed([main EXCEPT !.response = response],
                            RetryReturn([call EXCEPT !.fulfilled = "response"],
                                        "response"))
           IN main' = r.main /\ call' = r.call
    /\ UNCHANGED <<dedupVars, concurrentVars, authVars, extractVars>>

ApiRejects ==
    /\ AwaitsApi
    /\ call.pc = "awaitOperation"
    /\ \E e \in ApiErrors :
           LET r == Resumed(main,
                        RetryCatch(call, OperationError(call.invocations,
                                                        e.code, e.message)))
           IN main' = r.main /\ call' = r.call
    /\ UNCHANGED <<dedupVars, concurrentVars, authVars, extractVars>>

ApiSleepResolves ==
    /\ AwaitsApi
    /\ call.pc = "awaitSleep"
    /\ LET r == Resumed(main, RetryContinue(call))
       IN main' = r.main /\ call' = r.call
    /\ UNCHANGED <<dedupVars, concurrentVars, authVars, extractVars>>

\* Bun.write has written the buffer: writeZipToFile returns and main exits.
WriteFulfils ==
    /\ Running(main)
    /\ main.pc = "write"
    /\ main' = Exit([main EXCEPT !.writes = @ + 1,
                                 !.disk = [written |-> TRUE,
                                           content |-> main.zipBuffer]],
                    EXIT_SUCCESS, "")
    /\ UNCHANGED <<dedupVars, retryVars, concurrentVars, authVars, extractVars>>

\* Bun.write has failed: writeZipToFile throws for every code.
WriteRejects ==
    /\ Running(main)
    /\ main.pc = "write"
    /\ \E code \in WriteErrorCodes :
           main' = Exit([main EXCEPT !.writes = @ + 1],
                        EXIT_FS_ERROR, "Failed to write ZIP file:")
    /\ UNCHANGED <<dedupVars, retryVars, concurrentVars, authVars, extractVars>>

NextMain ==
    \/ MainStarts
    \/ AuthorizeFulfils
    \/ AuthorizeRejects
    \/ ApiFulfils
    \/ ApiRejects
    \/ ApiSleepResolves
    \/ WriteFulfils
    \/ WriteRejects

SpecMain == InitMain /\ [][NextMain]_vars

\* The same run when every pending promise settles.
SpecMainFair ==
    /\ SpecMain
    /\ WF_vars(MainStarts)
    /\ WF_vars(AuthorizeFulfils \/ AuthorizeRejects)
    /\ WF_vars(ApiFulfils \/ ApiRejects)
    /\ WF_vars(ApiSleepResolves)
    /\ WF_vars(WriteFulfils \/ WriteRejects)

(***************************************************************************)
(* index.ts: main up to its first await, for every command line of at most *)
(* MaxArgs arguments: parseArgs, the help exit and the query check.        *)
(***************************************************************************)
MaxArgs == 3

\* The arguments of a command line: the four options, an option parseArgs
\* does not know, a query, the empty string and a file name.
ArgTokens ==
    {<<"-", "h">>, <<"-", "-help">>, <<"-", "o">>, <<"-", "-output">>,
     <<"-", "x">>, PlainQuery, EmptyText, OutputName}

InitParse ==
    /\ \E argv \in SeqsUpTo(ArgTokens, MaxArgs) : main = NewMain(argv)
    /\ call = IdleCall
    /\ DedupIdle
    /\ ConcurrentIdle
    /\ AuthIdle
    /\ ExtractIdle

NextParse == MainStarts

SpecParse == InitParse /\ [][NextParse]_vars

(***************************************************************************)
(* index.ts: one run of main against an account whose search yields about *)
(* MessageLimit messages, up to MaxExcess more.  Three of the messages     *)
(* carry an attachment; a call may be rate limited at each invocation.     *)
(***************************************************************************)
MaxExcess == 1

MailboxSizes == (MessageLimit - 1)..(MessageLimit + MaxExcess)

\* The payload of a message of the account: the first message, the message
\* at the limit and the one after it are single-part attachments.
LargePayload(messageId) ==
    IF messageId \in {MessageId(1), MessageId(MessageLimit),
                      MessageId(MessageLimit + 1)}
    THEN [NoPayload EXCEPT !.filename = PlainName, !.attachmentId = "att1"]
    ELSE NoPayload

\* The responses of the account: the search comes in one page, or in two
\* pages of which the first holds half the limit.
LargeResponses(m) ==
    CASE m.pc = "search" ->
             IF m.pages = 1
             THEN {Page(0, k, "") : k \in MailboxSizes}
                      \cup {Page(0, MessageLimit \div 2, "t1")}
             ELSE {Page(Len(m.messageIds), k - Len(m.messageIds), "") :
                       k \in MailboxSizes}
      [] m.pc = "scan" ->
             {[NoResponse EXCEPT
                   !.payload = LargePayload(m.messageIds[m.i + 1])]}
      [] m.pc = "download" ->
             {[NoResponse EXCEPT !.hasData = TRUE, !.data = <<"c", "A">>]}

InitLimit ==
    /\ main = NewMain(<<PlainQuery>>)
    /\ call = IdleCall
    /\ DedupIdle
    /\ ConcurrentIdle
    /\ AuthIdle
    /\ ExtractIdle

LargeApiFulfils ==
    /\ AwaitsApi
    /\ call.pc = "awaitOperation"
    /\ \E response \in LargeResponses(main) :
           LET r == Resumed([main EXCEPT !.response = response],
                            RetryReturn([call EXCEPT !.fulfilled = "response"],
                                        "response"))
           IN main' = r.main /\ call' = r.call
    /\ UNCHANGED <<dedupVars, concurrentVars, authVars, extractVars>>

RateLimited ==
    /\ AwaitsApi
    /\ call.pc = "awaitOperation"
    /\ LET r == Resumed(main,
                    RetryCatch(call, OperationError(call.invocations, 429,
                                                    <<"Rate limited">>)))
       IN main' = r.main /\ call' = r.call
    /\ UNCHANGED <<dedupVars, concurrentVars, authVars, extractVars>>

NextLimit ==
    \/ MainStarts
    \/ AuthorizeFulfils
    \/ LargeApiFulfils
    \/ RateLimited
    \/ ApiSleepResolves
    \/ WriteFulfils

SpecLimit == InitLimit /\ [][NextLimit]_vars


(***************************************************************************)
(* gmail.ts: extractAttachments applied to every list of parts, nested to  *)
(* any depth, that has at most MaxParts parts in all.                      *)
(***************************************************************************)
MaxParts == 4

\* What a part is by itself: an attachment with every field, an attachment
\* without mimeType and size, a part with a body but no filename, a part
\* with a filename but no attachmentId.
PartKinds ==
    {Part(PlainName, "application/pdf", "att1", TRUE, 1024, <<>>),
     Part(DeletedName, "", "att2", FALSE, 0, <<>>),
     Part(EmptyText, "multipart/mixed", "att3", TRUE, 0, <<>>),
     Part(PlainName, "text/plain", "", FALSE, 0, <<>>)}

\* The lists of parts with n parts in all, nested parts included.
RECURSIVE PartLists(_)
PartLists(n) ==
    IF n = 0 THEN {<<>>}
    ELSE UNION {{<<[kind EXCEPT !.parts = nested]>> \o rest :
                     kind \in PartKinds,
                     nested \in PartLists(k),
                     rest \in PartLists(n - 1 - k)} : k \in 0..(n - 1)}

InitExtract ==
    /\ \E n \in 0..MaxParts, k \in 1..2 :
           \E parts \in PartLists(n) :
               extract = [pc |-> "called", parts |-> parts,
                          messageId |-> MessageId(k), result |-> <<>>]
    /\ call = IdleCall
    /\ DedupIdle
    /\ ConcurrentIdle
    /\ AuthIdle
    /\ MainIdle

ExtractReturns ==
    /\ extract.pc = "called"
    /\ extract' = [extract EXCEPT
                       !.pc = "returned",
                       !.result = extractAttachments(extract.parts,
                                                     extract.messageId)]
    /\ UNCHANGED <<dedupVars, retryVars, concurrentVars, authVars, mainVars>>

NextExtract == ExtractReturns

SpecExtract == InitExtract /\ [][NextExtract]_vars


(***************************************************************************)
(* Properties of deduplicateFilenames.                                     *)
(***************************************************************************)
\* Number of entries before position i that carry the same original name.
EarlierOccurrences(fs, i) ==
    Cardinality({j \in 1..(i - 1) : fs[j].filename = fs[i].filename})

\* 1-based positions of the dots of a name.
DotPositions(name) == {p \in 1..Len(name) : name[p] = "."}

\* The name has a dot that is not its first character.
HasExtension(name) == \E p \in DotPositions(name) : p > 1

LastDotPosition(name) ==
    CHOOSE p \in DotPositions(name) : \A q \in DotPositions(name) : q <= p

\* stem + "_" + k + ext, the name being split before its last dot.
SplitAtLastDot(name, k) ==
    LET p == LastDotPosition(name) IN
    SubSeq(name, 1, p - 1) \o <<"_">> \o NumberToString(k)
        \o SubSeq(name, p, Len(name))

\* C1: the names returned by deduplicateFilenames are pairwise distinct,
\* whatever the input names and their repetitions.
C1_OutputNamesDistinct ==
    dpc = "returned" =>
        \A i \in 1..Len(result), j \in 1..Len(result) :
            i # j => result[i].filename # result[j].filename

\* C2: deduplicateFilenames returns as many entries as it was given, the
\* i-th one carrying the payload of the i-th input entry; the empty input
\* gives the empty output.
C2_LengthOrderPayload ==
    dpc = "returned" =>
        /\ Len(result) = Len(files)
        /\ \A i \in 1..Len(files) : result[i].data = files[i].data
        /\ (files = <<>> => result = <<>>)

C2_Witness ==
    /\ dpc = "returned"
    /\ Len(files) >= 2
    /\ files[1].filename = files[2].filename
    /\ files[1].data # files[2].data
    /\ result[2].filename # files[2].filename

\* C3: the first occurrence of a name keeps it; the occurrence that has k
\* earlier occurrences of the same original name (k >= 1) is renamed to
\* stem + "_" + k + ext with the name split at its last dot; an input
\* without repeated names is returned with every name unchanged.
C3_RenameAtLastDot ==
    dpc = "returned" =>
        /\ Len(result) = Len(files)
        /\ \A i \in 1..Len(files) :
               LET name == files[i].filename
                   k == EarlierOccurrences(files, i)
               IN /\ (k = 0 => result[i].filename = name)
                  /\ (k >= 1 /\ HasExtension(name) =>
                         result[i].filename = SplitAtLastDot(name, k))
        /\ ((\A i \in 1..Len(files) : EarlierOccurrences(files, i) = 0) =>
               \A i \in 1..Len(files) :
                   result[i].filename = files[i].filename)

\* A name with two dots was repeated and split before the second one.
C3_Witness ==
    /\ dpc = "returned"
    /\ \E i \in 1..Len(files) :
           /\ EarlierOccurrences(files, i) >= 1
           /\ Cardinality(DotPositions(files[i].filename)) = 2
           /\ HasExtension(files[i].filename)
           /\ Len(result[i].filename) = Len(files[i].filename) + 2

\* C4: a repeated name that has no dot, or whose only dot is its first
\* character, gets "_" + count appended to the whole name.
C4_NoExtensionSuffix ==
    dpc = "returned" =>
        /\ Len(result) = Len(files)
        /\ \A i \in 1..Len(files) :
               LET name == files[i].filename
                   k == EarlierOccurrences(files, i)
               IN (k >= 1 /\ DotPositions(name) \subseteq {1}) =>
                      result[i].filename =
                          name \o <<"_">> \o NumberToString(k)

\* A name whose only dot is its first character was repeated.
C4_Witness ==
    /\ dpc = "returned"
    /\ \E i \in 1..Len(files) :
           /\ EarlierOccurrences(files, i) >= 1
           /\ DotPositions(files[i].filename) = {1}
           /\ Len(files[i].filename) >= 2

(***************************************************************************)
(* Properties of withRetry.                                                *)
(***************************************************************************)
\* A status the retry policy treats as transient: 429 or any code >= 500.
RetryableStatus(code) == code = 429 \/ code >= 500

CallFinished == call.pc = "done"
CallFailed == call.pc = "done" /\ call.outcome.kind = "threw"

LastCaught == call.caught[Len(call.caught)]

\* "<context>: Failed after <n> attempts - <message>"
ExhaustedMessage(context, n, message) ==
    context \o <<": Failed after ">> \o NumberToString(n)
        \o <<" attempts - ">> \o message

\* C5: when every attempt fails with a retryable status, withRetry with
\* maxAttempts = n invokes the operation exactly n times, suspends exactly n
\* times and then fails with "<context>: Failed after <n> attempts - <message
\* of the last error>".
C5_ExhaustedAfterNAttempts ==
    (/\ CallFailed
     /\ call.caught # <<>>
     /\ \A i \in 1..Len(call.caught) : RetryableStatus(call.caught[i].code))
    => /\ call.invocations = call.maxRetries
       /\ Len(call.caught) = call.maxRetries
       /\ Len(call.sleeps) = call.maxRetries
       /\ call.outcome.error.code = NoCode
       /\ call.outcome.error.message =
              ExhaustedMessage(call.context, call.maxRetries,
                               LastCaught.message)

C5_Witness ==
    /\ CallFailed
    /\ call.maxRetries = 3
    /\ Len(call.caught) = 3
    /\ \A i \in 1..3 : call.caught[i].code = 429
    /\ call.caught[2].message # call.caught[3].message

\* The case C6 is about: maxAttempts = 1 and the only attempt failed with a
\* retryable status.
SingleAttemptRetryableFailure ==
    /\ CallFinished
    /\ call.maxRetries = 1
    /\ Len(call.caught) = 1
    /\ RetryableStatus(call.caught[1].code)

\* C6 as stated: with maxAttempts = 1 the operation is invoked exactly once
\* and a retryable error becomes a RetriesExhausted failure without any
\* suspension.
C6_SingleAttemptNoDelay ==
    SingleAttemptRetryableFailure =>
        /\ call.invocations = 1
        /\ call.outcome.kind = "threw"
        /\ call.outcome.error.message =
               ExhaustedMessage(call.context, 1, call.caught[1].message)
        /\ call.sleeps = <<>>

\* C6 as amended: with maxAttempts = 1 the operation is invoked exactly once
\* and a retryable error becomes a RetriesExhausted failure after exactly
\* one suspension of 1000 ms.
C6_SingleAttemptOneDelay ==
    SingleAttemptRetryableFailure =>
        /\ call.invocations = 1
        /\ call.outcome.kind = "threw"
        /\ call.outcome.error.message =
               ExhaustedMessage(call.context, 1, call.caught[1].message)
        /\ call.sleeps = <<[attempt |-> 0, ms |-> 1000]>>

C6_Witness ==
    /\ SingleAttemptRetryableFailure
    /\ call.caught[1].code = 503

\* C7: the suspension that follows the failed attempt with 0-based index a
\* lasts exactly 1000 * 2^a milliseconds, whatever retryable codes the
\* attempts produced, and no suspension happens before the first attempt.
C7_BackoffSchedule ==
    /\ \A i \in 1..Len(call.sleeps) :
           /\ call.sleeps[i].attempt = i - 1
           /\ call.sleeps[i].ms = 1000 * (2 ^ (i - 1))
           /\ i <= Len(call.caught)
           /\ RetryableStatus(call.caught[i].code)
    /\ (call.invocations = 0 => call.sleeps = <<>>)
    /\ Len(call.sleeps) <= call.invocations

C7_Witness ==
    /\ call.pc = "awaitSleep"
    /\ Len(call.sleeps) = 3
    /\ call.caught[1].code = 429
    /\ call.caught[2].code = 503
    /\ call.caught[3].code = 500

\* The attempt that failed last was the final one: the call is over, the
\* operation was invoked once per caught error and only the earlier failed
\* attempts were followed by a suspension.
FailedAtOnce ==
    /\ CallFailed
    /\ call.invocations = Len(call.caught)
    /\ Len(call.sleeps) = Len(call.caught) - 1

\* C8: whenever an attempt fails with status 404, withRetry fails at once
\* with "<context>: Resource not found (may have been deleted)", without
\* another invocation and without a suspension after that attempt.
C8_NotFoundFailsAtOnce ==
    (call.caught # <<>> /\ LastCaught.code = 404) =>
        /\ FailedAtOnce
        /\ call.outcome.error.message =
               call.context \o
                   <<": Resource ", "not found", " (may have been ", "deleted", ")">>

C8_Witness ==
    /\ CallFailed
    /\ Len(call.caught) = 2
    /\ call.caught[1].code = 500
    /\ call.caught[2].code = 404

\* C9: whenever an attempt fails with status 400, withRetry fails at once
\* with "<context>: Invalid request - <original message>", without another
\* invocation and without a suspension after that attempt.
C9_InvalidRequestFailsAtOnce ==
    (call.caught # <<>> /\ LastCaught.code = 400) =>
        /\ FailedAtOnce
        /\ call.outcome.error.message =
               call.context \o <<": ", "Invalid request", " - ">>
                   \o LastCaught.message

C9_Witness ==
    /\ CallFailed
    /\ Len(call.caught) = 2
    /\ call.caught[1].code = 429
    /\ call.caught[2].code = 400

\* C10: whenever an attempt fails without a status code or with a code other
\* than 400, 404, 429 and >= 500, withRetry fails at once with the very
\* error it caught, without another invocation and without a suspension
\* after that attempt.
C10_UnclassifiedRethrown ==
    (/\ call.caught # <<>>
     /\ LastCaught.code \notin {400, 404, 429}
     /\ ~(LastCaught.code >= 500))
    => /\ FailedAtOnce
       /\ call.outcome.error = LastCaught

C10_Witness ==
    /\ CallFailed
    /\ Len(call.caught) = 2
    /\ call.caught[1].code = 503
    /\ call.caught[2].code = 403
    /\ call.outcome.error.id = 2

\* C11: when the operation fails with retryable errors on its first k
\* attempts, k < maxAttempts, and then succeeds, withRetry returns that value
\* after exactly k + 1 invocations and k suspensions and the operation is not
\* invoked again; a success on the first try is one invocation and no
\* suspension.
C11_SuccessAfterRetries ==
    (call.fulfilled # "") =>
        /\ CallFinished
        /\ call.outcome = Returned(call.fulfilled)
        /\ Len(call.caught) < call.maxRetries
        /\ \A i \in 1..Len(call.caught) : RetryableStatus(call.caught[i].code)
        /\ call.invocations = Len(call.caught) + 1
        /\ Len(call.sleeps) = Len(call.caught)

C11_Witness ==
    /\ CallFinished
    /\ call.fulfilled = "response2"
    /\ Len(call.caught) = 2
    /\ call.invocations = 3

\* C12: every non-success outcome of withRetry is an error whose message
\* includes the context string passed to withRetry.
C12_FailureNamesContext ==
    CallFailed => Includes(call.outcome.error.message, call.context)

\* C16: withRetry always terminates and invokes the operation at most
\* maxAttempts times (never, when maxAttempts is not positive), whatever
\* outcomes the operation produces, provided every invocation and every
\* suspension eventually completes.
C16_TerminatesWithinMaxAttempts ==
    /\ <>CallFinished
    /\ [](call.invocations <= (IF call.maxRetries > 0
                                THEN call.maxRetries ELSE 0))

C16_Witness ==
    /\ CallFinished
    /\ call.maxRetries = 3
    /\ call.invocations = 3
    /\ Len(call.sleeps) = 3

\* What a call does on its own: one invocation per attempt, the i-th
\* suspension after attempt i - 1 and 1000 * 2^(i-1) ms long.
CountsOnItsOwn(f) ==
    /\ f.attempt <= f.maxRetries
    /\ f.invocations <= f.maxRetries
    /\ (f.pc = "awaitOperation" =>
           f.invocations = f.attempt + 1 /\ Len(f.sleeps) = f.attempt)
    /\ (f.pc = "awaitSleep" =>
           f.invocations = f.attempt + 1 /\ Len(f.sleeps) = f.attempt + 1)
    /\ \A i \in 1..Len(f.sleeps) :
           f.sleeps[i] = [attempt |-> i - 1, ms |-> 1000 * (2 ^ (i - 1))]

\* C17: when two withRetry calls run concurrently, the suspension of one
\* does not prevent the other from invoking its operation and completing
\* (every step of a call that is due stays enabled while the other call
\* sleeps), and each call counts its attempts and computes its delays on its
\* own: a step of one call changes nothing in the other.
C17_ConcurrentCallsIndependent ==
    /\ [](\A c \in CallIds :
              /\ CountsOnItsOwn(calls[c])
              /\ (calls[c].pc = "ready" => ENABLED ConcurrentCalled(c))
              /\ (calls[c].pc = "awaitOperation" =>
                     ENABLED ConcurrentFulfils(c)
                         /\ ENABLED ConcurrentRejects(c))
              /\ (calls[c].pc = "awaitSleep" =>
                     ENABLED ConcurrentSleepResolves(c)))
    /\ [][\A c \in CallIds, d \in CallIds :
              (c # d /\ calls'[c] # calls[c]) => calls'[d] = calls[d]]_vars

\* Call 2 was invoked twice and completed while call 1 was still in its
\* first suspension.
C17_Witness ==
    /\ calls # <<>>
    /\ calls[1].pc = "awaitSleep"
    /\ Len(calls[1].sleeps) = 1
    /\ during[1] >= 4
    /\ calls[2].pc = "done"
    /\ calls[2].invocations = 2

(***************************************************************************)
(* Properties of authorize and refreshTokenIfNeeded.                       *)
(***************************************************************************)
AuthorizeFinished == auth.pc = "done"

LastWrite == auth.writes[Len(auth.writes)]

\* C18: authorize returns a client using the cached token without running
\* the authorization flow when a cached token exists and
\* refreshTokenIfNeeded succeeds; without a cached token, or when
\* refreshTokenIfNeeded fails, it runs the flow, saves the new token and
\* returns a client with that token.
C18_AuthorizeCacheOrFlow ==
    (AuthorizeFinished /\ auth.credentialsFile = "ok") =>
        /\ (auth.refreshOutcome.kind = "returned" =>
               /\ auth.cached.state = "token"
               /\ auth.flowRuns = 0
               /\ auth.outcome = AuthReturned(auth.refreshOutcome.token)
               /\ auth.client = auth.refreshOutcome.token
               /\ auth.tokenFile =
                      [state |-> "token", token |-> auth.client])
        /\ ((auth.cached.state # "token"
                \/ auth.refreshOutcome.kind = "threw") =>
               /\ auth.flowRuns = 1
               /\ (auth.outcome.kind = "returned" <=>
                      (auth.flowToken # NullToken /\ auth.writes # <<>>
                          /\ LastWrite = auth.flowToken))
               /\ (auth.outcome.kind = "returned" =>
                      /\ auth.outcome = AuthReturned(auth.flowToken)
                      /\ auth.client = auth.flowToken
                      /\ auth.tokenFile =
                             [state |-> "token", token |-> auth.flowToken]))

\* The refresh of the cached token failed and the flow gave the client a
\* new token.
C18_Witness ==
    /\ AuthorizeFinished
    /\ auth.cached.state = "token"
    /\ auth.refreshCalls = 1
    /\ auth.refreshOutcome.kind = "threw"
    /\ auth.flowRuns = 1
    /\ auth.outcome.kind = "returned"
    /\ auth.client.access_token = "a2"

\* C19: refreshTokenIfNeeded returns the given token unchanged, without
\* calling refreshAccessToken and without writing token.json, whenever the
\* token has no expiry_date or its expiry_date is at least 5 minutes after
\* the current time.
C19_FreshTokenUnchanged ==
    (/\ auth.refreshCalled
     /\ \/ auth.given.expiry_date = NoExpiry
        \/ auth.given.expiry_date >= Now + 300000)
    => /\ auth.refreshOutcome = AuthReturned(auth.given)
       /\ auth.refreshCalls = 0
       /\ auth.writes = <<>>
       /\ auth.failedWrites = 0
       /\ auth.tokenFile = auth.cached

\* The token expires in exactly 5 minutes.
C19_Witness ==
    /\ AuthorizeFinished
    /\ auth.refreshCalled
    /\ auth.given.expiry_date = Now + 300000
    /\ auth.given.refresh_token = "r0"

\* The credentials refreshTokenIfNeeded is to save and return: the ones
\* obtained, with the original refresh_token when they carry none.
KeptCredentials ==
    [access_token |-> auth.obtained.access_token,
     refresh_token |-> IF auth.obtained.refresh_token = NoRefreshToken
                       THEN auth.given.refresh_token
                       ELSE auth.obtained.refresh_token,
     expiry_date |-> auth.obtained.expiry_date]

\* refreshAccessToken is called once and, after it fulfilled and the write
\* went through, the kept credentials are in token.json and returned.
RefreshedSavedReturned ==
    /\ auth.refreshCalls = 1
    /\ (/\ auth.obtained # NullToken
        /\ auth.pc # "awaitSaveRefreshed"
        /\ auth.failedWrites = 0)
       => /\ auth.refreshOutcome = AuthReturned(KeptCredentials)
          /\ auth.writes = <<KeptCredentials>>
          /\ auth.tokenFile = [state |-> "token", token |-> KeptCredentials]

AfterRefreshFailure ==
    auth.refreshOutcome.kind = "threw" /\ auth.pc = "prompt"

\* refreshAccessToken was called and rejected.
RefreshRejected ==
    /\ auth.refreshCalls = 1
    /\ auth.obtained = NullToken
    /\ auth.pc # "awaitRefresh"

NoRefreshTokenError ==
    NewError(<<"Token expired and no refresh token available.">>)

ExpectedName(fs, i) ==
    LET name == fs[i].filename
        k == EarlierOccurrences(fs, i)
    IN IF k = 0 THEN name
       ELSE IF HasExtension(name) THEN SplitAtLastDot(name, k)
       ELSE name \o <<"_">> \o NumberToString(k)

\* C15: the archive createZip produces has one member per input entry, the
\* i-th one under the deduplicated name of the i-th entry and with exactly
\* its payload; the empty input gives an archive without members.
C15_ArchiveHoldsEveryEntry ==
    dpc = "zipped" =>
        /\ Len(archive) = Len(files)
        /\ \A i \in 1..Len(files) :
               \E m \in 1..Len(archive) :
                   /\ archive[m].name = ExpectedName(files, i)
                   /\ archive[m].data = files[i].data
        /\ (files = <<>> => archive = <<>>)

(***************************************************************************)
(* Properties of main.                                                     *)
(***************************************************************************)
MainExited == main.pc # "idle" /\ main.exits # <<>>

ExitCode == main.exits[Len(main.exits)]

\* The run exited inside the scan loop or the download loop, at an item it
\* had not finished: the failure of that item was not skipped.
AbortedInLoop ==
    /\ MainExited
    /\ \/ main.pc = "scan" /\ main.i < Len(main.messageIds)
       \/ main.pc = "download" /\ main.i < Len(main.allAttachments)

\* The withRetry call main awaited last threw, and caught this code last.
CallThrew == call.pc = "done" /\ call.outcome.kind = "threw"
CallThrewOn(code) == CallThrew /\ LastCode(call) = code

\* C13: in the scan loop and the download loop a failed call is skipped, and
\* the loop goes on, exactly when withRetry failed on a 404; every other
\* failure (400, retries exhausted, an unclassified error, missing data)
\* ends the run with an error message and a non-zero exit code.
C13_SkipIffNotFound ==
    /\ \A k \in 1..Len(main.skips) :
           main.skips[k].threw /\ main.skips[k].code = 404
    /\ AbortedInLoop =>
           /\ ~CallThrewOn(404)
           /\ ExitCode # EXIT_SUCCESS
           /\ main.stderr # <<>>

\* What the command line asks for, read off argv: position k is the value of
\* an output option, an option is unknown, the last output option has no
\* value, help is requested, no query is given.
RECURSIVE IsOutputValue(_, _)
IsOutputValue(argv, k) ==
    /\ k > 1
    /\ argv[k - 1] \in {<<"-", "o">>, <<"-", "-output">>}
    /\ ~IsOutputValue(argv, k - 1)

Options(argv) ==
    {k \in 1..Len(argv) : StartsWithDash(argv[k]) /\ ~IsOutputValue(argv, k)}

UnknownOption(argv) ==
    \E k \in Options(argv) :
        argv[k] \notin {<<"-", "h">>, <<"-", "-help">>,
                        <<"-", "o">>, <<"-", "-output">>}

OutputWithoutValue(argv) ==
    \E k \in Options(argv) :
        argv[k] \in {<<"-", "o">>, <<"-", "-output">>} /\ k = Len(argv)

HelpRequested(argv) ==
    \E k \in Options(argv) : argv[k] \in {<<"-", "h">>, <<"-", "-help">>}

MissingQuery(argv) ==
    LET positional == {k \in 1..Len(argv) :
                          ~StartsWithDash(argv[k]) /\ ~IsOutputValue(argv, k)}
    IN \A k \in positional :
           argv[k] = EmptyText /\ \E j \in positional : j > k

\* The failures a run can end on, told by the phase it ended in and the
\* status of the call it awaited there.
UserError ==
    \/ /\ main.pc = "start"
       /\ \/ UnknownOption(main.argv)
          \/ OutputWithoutValue(main.argv)
          \/ MissingQuery(main.argv) /\ ~HelpRequested(main.argv)
    \/ main.pc = "search" /\ CallThrewOn(400)

AuthFailure == main.pc = "authorize"

ApiFailure ==
    \/ main.pc = "search" /\ CallThrew /\ ~CallThrewOn(400)
    \/ AbortedInLoop

WriteFailure == main.pc = "write" /\ ~main.disk.written

\* C14: a run of main ends with exactly one exit code, one of 0..4: 1 for a
\* missing query, an unknown option, an output option without value or a
\* search that failed on a 400; 2 when authorize failed; 3 when a Gmail call
\* of the search, the scan or the download failed and was not skipped; 4
\* when the write of the archive failed; 0 only when none of these happened.
C14_ExitCodeByFailure ==
    MainExited =>
        /\ Len(main.exits) = 1
        /\ ExitCode \in {EXIT_SUCCESS, EXIT_USER_ERROR, EXIT_AUTH_ERROR,
                         EXIT_API_ERROR, EXIT_FS_ERROR}
        /\ (ExitCode = EXIT_USER_ERROR) <=> UserError
        /\ (ExitCode = EXIT_AUTH_ERROR) <=> AuthFailure
        /\ (ExitCode = EXIT_API_ERROR) <=> ApiFailure
        /\ (ExitCode = EXIT_FS_ERROR) <=> WriteFailure
        /\ (ExitCode = EXIT_SUCCESS) =>
               ~(UserError \/ AuthFailure \/ ApiFailure \/ WriteFailure)

(***************************************************************************)
(* Properties of searchMessages.                                           *)
(***************************************************************************)
\* searchMessages has returned to main.
SearchFinished ==
    \/ main.pc \in {"scan", "download", "write"}
    \/ main.pc = "search" /\ MainExited /\ ~CallThrew

\* The ids of the pages from page p on, page after page.
RECURSIVE IdsFrom(_, _)
IdsFrom(pages, p) ==
    IF p > Len(pages) THEN <<>>
    ELSE [x \in 1..Len(pages[p].messages) |-> pages[p].messages[x].id]
             \o IdsFrom(pages, p + 1)

\* C22: searchMessages requests one page at a time, each with the
\* nextPageToken of the page before (none for the first), goes on exactly
\* while the page that arrived names a next page, and returns the ids of
\* all pages in page order; every page takes one withRetry call that is
\* fulfilled once, and a page without messages adds no id.
C22_PagesInOrder ==
    LET L == main.listed
    IN main.pc # "idle" =>
           /\ \A p \in 1..Len(L) :
                  L[p].pageToken =
                      (IF p = 1 THEN "" ELSE L[p - 1].nextPageToken)
           /\ \A p \in 1..(Len(L) - 1) : L[p].nextPageToken # ""
           /\ (main.pc = "search" /\ Running(main)) =>
                  /\ main.pages = Len(L) + 1
                  /\ Len(L) > 0 => L[Len(L)].nextPageToken # ""
                  /\ call.fulfilled = ""
                  /\ call.invocations <= Len(call.caught) + 1
           /\ SearchFinished =>
                  /\ Len(L) > 0
                  /\ L[Len(L)].nextPageToken = ""
                  /\ main.pages = Len(L)
                  /\ main.messageIds = IdsFrom(L, 1)

\* Two pages of one message each were listed, the second one requested with
\* the token of the first.
C22_Witness ==
    /\ SearchFinished
    /\ Len(main.listed) = 2
    /\ main.listed[1].nextPageToken = "t1"
    /\ main.listed[2].pageToken = "t1"
    /\ main.messageIds = <<MessageId(1), MessageId(2)>>

(***************************************************************************)
(* Properties of extractAttachments.                                       *)
(***************************************************************************)
\* The positions of the parts of a list: <<k>> is its k-th part, p \o <<k>>
\* the k-th nested part of the part at p.
RECURSIVE PathsOf(_)
PathsOf(parts) ==
    UNION {{<<k>>} \cup {<<k>> \o q : q \in PathsOf(parts[k].parts)} :
               k \in 1..Len(parts)}

RECURSIVE PartAt(_, _)
PartAt(parts, path) ==
    IF Len(path) = 1 THEN parts[path[1]]
    ELSE PartAt(parts[path[1]].parts, Tail(path))

\* p comes before q when the parts are visited depth first, a part before
\* its nested parts.
Before(p, q) ==
    \/ Len(p) < Len(q) /\ SubSeq(q, 1, Len(p)) = p
    \/ \E i \in 1..Len(p) :
           /\ i <= Len(q)
           /\ SubSeq(p, 1, i - 1) = SubSeq(q, 1, i - 1)
           /\ p[i] < q[i]

\* C23: extractAttachments returns, in depth-first pre-order, one record
\* for every part at any depth that has a non-empty filename and a body
\* attachmentId, and none for any other part; a record carries the given
\* messageId, the mimeType or "application/octet-stream", the size or 0; no
\* parts give the empty list.
C23_AttachmentsInPreOrder ==
    extract.pc = "returned" =>
        LET attachments ==
                {p \in PathsOf(extract.parts) :
                     /\ PartAt(extract.parts, p).filename # EmptyText
                     /\ PartAt(extract.parts, p).attachmentId # ""}
        IN /\ Len(extract.result) = Cardinality(attachments)
           /\ \A p \in attachments :
                  LET part == PartAt(extract.parts, p)
                      i == 1 + Cardinality({q \in attachments : Before(q, p)})
                  IN extract.result[i] =
                         [attachmentId |-> part.attachmentId,
                          filename |-> part.filename,
                          mimeType |-> IF part.mimeType = ""
                                       THEN "application/octet-stream"
                                       ELSE part.mimeType,
                          size |-> IF part.hasSize THEN part.size ELSE 0,
                          messageId |-> extract.messageId]

\* An attachment with a nested attachment that has neither mimeType nor
\* size, followed by a part without attachmentId and another attachment.
C23_Witness ==
    /\ extract.pc = "returned"
    /\ Len(extract.parts) = 3
    /\ Len(extract.parts[1].parts) = 1
    /\ Len(extract.result) = 3
    /\ extract.result[1].attachmentId = "att1"
    /\ extract.result[2].attachmentId = "att2"
    /\ extract.result[2].mimeType = "application/octet-stream"
    /\ extract.result[2].size = 0
    /\ extract.parts[2].attachmentId = ""
    /\ extract.result[3].attachmentId = "att1"

(***************************************************************************)
(* Properties of downloadAttachment.                                       *)
(***************************************************************************)
\* The number written by the bytes from position k on.
RECURSIVE ByteNumber(_, _)
ByteNumber(bytes, k) ==
    IF k > Len(bytes) THEN 0
    ELSE bytes[k] * Pow(256, Len(bytes) - k) + ByteNumber(bytes, k + 1)

\* The unpadded base64url text of a sequence of bytes: its bits, filled up
\* with zeros to a multiple of six, six bits a character.
Base64UrlOf(bytes) ==
    LET bits == 8 * Len(bytes)
        fill == (6 - (bits % 6)) % 6
        count == (bits + fill) \div 6
        number == ByteNumber(bytes, 1) * Pow(2, fill)
    IN [k \in 1..count |->
            Base64UrlAlphabet[((number \div Pow(64, count - k)) % 64) + 1]]

\* The downloadAttachment calls of the run whose attachments.get call was
\* fulfilled.
Fulfilled == {k \in 1..Len(main.downloads) : main.downloads[k].fulfilled}

\* C24: downloadAttachment returns the given filename with the bytes whose
\* base64url text is the data of the response; when the response has no
\* data it rejects with 'No data in attachment "<filename>" from message
\* <messageId>' and returns no entry.
C24_DecodedOrNoData ==
    main.pc # "idle" =>
        /\ \A k \in Fulfilled :
               LET d == main.downloads[k]
               IN IF d.response.hasData /\ d.response.data # <<>>
                  THEN /\ d.outcome.kind = "returned"
                       /\ d.outcome.file.filename = d.filename
                       /\ Base64UrlOf(d.outcome.file.data) = d.response.data
                  ELSE /\ d.outcome.kind = "threw"
                       /\ d.outcome.error.message =
                              <<"No data in attachment \"">> \o d.filename
                                  \o <<"\" from message ">> \o d.messageId
        /\ Len(main.files) =
               Cardinality({k \in Fulfilled :
                                main.downloads[k].response.hasData
                                    /\ main.downloads[k].response.data # <<>>})

\* The first download returned the byte 255 for the data "_w", the second
\* one had a response without data.
C24_Witness ==
    /\ main.pc # "idle"
    /\ Len(main.downloads) = 2
    /\ main.downloads[1].response.data = <<"_", "w">>
    /\ main.downloads[1].outcome.file =
           [filename |-> PlainName, data |-> <<255>>]
    /\ main.downloads[2].fulfilled
    /\ ~main.downloads[2].response.hasData
    /\ main.downloads[2].outcome.kind = "threw"
    /\ Len(main.files) = 1

(***************************************************************************)
(* Properties of withRetry without attempts.                               *)
(***************************************************************************)
\* C30: with maxAttempts <= 0 withRetry never invokes the operation and
\* never suspends, and it fails with "<context>: Failed after <maxAttempts>
\* attempts - undefined".
C30_NoAttemptsFailsAtOnce ==
    call.maxRetries <= 0 =>
        /\ call.invocations = 0
        /\ call.caught = <<>>
        /\ call.sleeps = <<>>
        /\ call.pc \in {"ready", "done"}
        /\ call.pc = "done" =>
               /\ call.outcome.kind = "threw"
               /\ call.outcome.error.code = NoCode
               /\ call.outcome.error.message =
                      ExhaustedMessage(call.context, call.maxRetries,
                                       <<"undefined">>)

\* A call with maxAttempts = 0 has failed, and its message reads
\* "Fetching message m1: Failed after 0 attempts - undefined".
C30_Witness ==
    /\ CallFailed
    /\ call.maxRetries = 0
    /\ call.outcome.error.message =
           <<"Fetching message m1", ": Failed after ", "0", " attempts - ",
             "undefined">>

(***************************************************************************)
(* Properties of main for an attachment without content.                   *)
(***************************************************************************)
\* The downloads whose response carried the empty string as data.
EmptyData ==
    {k \in Fulfilled : /\ main.downloads[k].response.hasData
                       /\ main.downloads[k].response.data = <<>>}

\* The message of the error for an attachment without data.
NoDataText(d) ==
    <<"No data in attachment \"">> \o d.filename
        \o <<"\" from message ">> \o d.messageId

\* The k-th attachment of the run was skipped by the download loop.
SkippedDownload(k) ==
    \E s \in 1..Len(main.skips) :
        main.skips[s].phase = "download" /\ main.skips[s].item = k - 1

\* The run was ended with exit code 3 by the k-th attachment.
AbortedAtDownload(k) ==
    /\ main.exits = <<EXIT_API_ERROR>>
    /\ main.pc = "download"
    /\ main.i = k - 1
    /\ Len(main.downloads) = k
    /\ ~SkippedDownload(k)

\* C29: an attachment whose data is the empty string is rejected by
\* downloadAttachment with the 'No data in attachment' error, as absent data
\* is, and main then ends the run with exit code 3, unless the message
\* contains "not found" or "deleted": then the attachment is skipped.
C29_EmptyDataIsNoData ==
    main.pc # "idle" =>
        \A k \in EmptyData :
            LET d == main.downloads[k]
            IN /\ d.outcome.kind = "threw"
               /\ d.outcome.error.message = NoDataText(d)
               /\ d.outcome.error.code = NoCode
               /\ IF \/ Includes(NoDataText(d), <<"not found">>)
                     \/ Includes(NoDataText(d), <<"deleted">>)
                  THEN SkippedDownload(k) /\ ~AbortedAtDownload(k)
                  ELSE AbortedAtDownload(k)

\* The attachment "deleted.pdf" came with empty data and was skipped, then
\* the attachment "a.pdf" came with empty data and ended the run with 3.
C29_Witness ==
    /\ main.pc = "download"
    /\ EmptyData = {1, 2}
    /\ main.downloads[1].filename = <<"deleted", ".", "pdf">>
    /\ SkippedDownload(1)
    /\ main.downloads[2].filename = <<"a", ".", "pdf">>
    /\ AbortedAtDownload(2)
    /\ main.files = <<>>

(***************************************************************************)
(* Properties of parseArgs.                                                *)
(***************************************************************************)
\* main has run up to its first await.
Parsed == main.pc = "authorize" \/ (main.pc = "start" /\ MainExited)

\* The positions of the arguments that are neither options nor the value of
\* an output option.
Positional(argv) ==
    {k \in 1..Len(argv) : ~StartsWithDash(argv[k]) /\ ~IsOutputValue(argv, k)}

\* The positions of the values of the output options.
OutputValues(argv) == {k \in 1..Len(argv) : IsOutputValue(argv, k)}

Last(S) == CHOOSE k \in S : \A j \in S : j <= k

\* What parseArgs is to return for a command line it accepts.
ExpectedArgs(argv) ==
    [query |-> IF Positional(argv) = {} THEN <<>>
               ELSE argv[Last(Positional(argv))],
     output |-> IF OutputValues(argv) = {} THEN <<"attachments", ".", "zip">>
                ELSE argv[Last(OutputValues(argv))],
     help |-> HelpRequested(argv)]

\* C25: parseArgs reads every argument, in any order: -h/--help sets help
\* and the scan goes on, -o/--output takes the next argument as the output
\* name, any other argument without a leading dash becomes the query, the
\* defaults are query "" and output "attachments.zip"; an unknown option or
\* an output option at the end without a value exits with code 1.
C25_ParseArgsByPosition ==
    Parsed =>
        IF UnknownOption(main.argv) \/ OutputWithoutValue(main.argv)
        THEN /\ main.exits = <<1>>
             /\ main.pc = "start"
             /\ main.stderr \in
                    {<<"Error: Unknown option">>,
                     <<"Error: -o/--output requires a filename argument">>}
        ELSE /\ main.args = ExpectedArgs(main.argv)
             /\ main.stderr \in {<<>>, <<"Error: Search query is required">>}

\* The command line "-o out.zip has:attachment" was parsed: the option comes
\* before the query.
C25_Witness ==
    /\ main.argv = <<<<"-", "o">>, <<"out", ".", "zip">>, <<"has:attachment">>>>
    /\ main.pc = "authorize"
    /\ main.args = [query |-> <<"has:attachment">>,
                    output |-> <<"out", ".", "zip">>, help |-> FALSE]

(***************************************************************************)
(* Properties of main: the output file.                                    *)
(***************************************************************************)
\* writeZipToFile has been called.
WriteAttempted == main.pc = "write"

\* The search returned: the last page that arrived names no next page.
SearchDone ==
    /\ main.listed # <<>>
    /\ main.listed[Len(main.listed)].nextPageToken = ""

\* getMessageAttachments was called, and has settled, once for every
\* message id, in order.
AllScanned ==
    /\ main.fetched = main.messageIds
    /\ [k \in 1..Len(main.scans) |-> main.scans[k].messageId] = main.messageIds

\* downloadAttachment was called once for every attachment, in order, and
\* every call returned an entry or was skipped.
AllDownloaded ==
    /\ Len(main.downloads) = Len(main.allAttachments)
    /\ \A k \in 1..Len(main.downloads) :
           /\ main.downloads[k].messageId = main.allAttachments[k].messageId
           /\ main.downloads[k].attachmentId =
                  main.allAttachments[k].attachmentId
           /\ \/ main.downloads[k].outcome.kind = "returned"
              \/ SkippedDownload(k)

\* C26: main attempts to write the output file at most once, only when
\* authentication, the search, the scan of every message and the download
\* or skip of every attachment are over, and never in a run that exits with
\* code 1, 2 or 3: such a run leaves no output file.
C26_WriteOnceAfterAllPhases ==
    main.pc # "idle" =>
        /\ main.writes <= 1
        /\ (main.writes > 0 \/ main.disk.written) => WriteAttempted
        /\ WriteAttempted =>
               /\ main.auth = "client"
               /\ SearchDone
               /\ AllScanned
               /\ AllDownloaded
        /\ (MainExited /\ ExitCode \in {1, 2, 3}) =>
               /\ ~WriteAttempted
               /\ main.writes = 0
               /\ ~main.disk.written

\* The file was written after two messages were scanned, the attachment of
\* the first was skipped and the attachment of the second was downloaded.
C26_Witness ==
    /\ MainExited
    /\ main.disk.written
    /\ main.writes = 1
    /\ Len(main.scans) = 2
    /\ Len(main.downloads) = 2
    /\ SkippedDownload(1)
    /\ main.downloads[2].outcome.kind = "returned"

\* Every download of the run was skipped.
AllSkipped ==
    /\ main.allAttachments # <<>>
    /\ AllDownloaded
    /\ \A k \in 1..Len(main.downloads) : SkippedDownload(k)

\* C27: a run that ends with exit code 0 has written the output file exactly
\* when the scan found an attachment: without messages or without
\* attachments no archive is created or written, and when every download
\* was skipped an archive without entries is written.
C27_WrittenIffAttachmentFound ==
    (MainExited /\ ExitCode = 0) =>
        /\ main.disk.written <=> Len(main.allAttachments) > 0
        /\ (main.messageIds = <<>> \/ main.allAttachments = <<>>) =>
               /\ ~WriteAttempted
               /\ main.writes = 0
               /\ main.zipBuffer = <<>>
        /\ AllSkipped =>
               /\ main.writes = 1
               /\ main.disk.written
               /\ main.disk.content = <<>>

\* A run whose two downloads were both skipped wrote an empty archive and
\* exited with 0.
C27_Witness ==
    /\ MainExited
    /\ ExitCode = 0
    /\ AllSkipped
    /\ Len(main.downloads) = 2
    /\ main.disk.written
    /\ main.disk.content = <<>>

(***************************************************************************)
(* Properties of main: the limit of the scan.                              *)
(***************************************************************************)
\* The ids the search returned, in the order of the pages.
SearchOrder == IdsFrom(main.listed, 1)

\* The scan loop is over.
ScanOver ==
    \/ main.pc \in {"download", "write"}
    \/ main.pc = "scan" /\ MainExited /\ ExitCode = 0

\* C28: main scans at most 100 messages: the messages fetched are the first
\* ones in search order, all of the first 100 once the scan is over, and a
\* message after the 100th is never fetched.
C28_ScansFirstHundred ==
    main.pc \in {"scan", "download", "write"} =>
        /\ Len(main.fetched) <= 100
        /\ \A k \in 1..Len(main.fetched) : main.fetched[k] = SearchOrder[k]
        /\ ScanOver =>
               Len(main.fetched) =
                   IF Len(SearchOrder) > 100 THEN 100 ELSE Len(SearchOrder)
        /\ \A k \in 101..Len(SearchOrder) :
               /\ \A j \in 1..Len(main.fetched) :
                      main.fetched[j] # SearchOrder[k]
               /\ \A j \in 1..Len(main.downloads) :
                      main.downloads[j].messageId # SearchOrder[k]

\* A search of two pages returned 101 ids, 100 messages were fetched, and
\* the attachments of the first and of the 100th were written.
C28_Witness ==
    /\ Len(main.listed) = 2
    /\ Len(SearchOrder) = 101
    /\ Len(main.fetched) = 100
    /\ main.fetched[100] = <<"m", "1", "0", "0">>
    /\ Len(main.files) = 2
    /\ main.disk.written

====
